---- MODULE Spec2Model ----
(***************************************************************************)
(* A model of jsonlol: the format parsers (JSON, JSONL, CSV/TSV), schema   *)
(* inference, and the document store with the views that write to it.      *)
(*                                                                         *)
(* Text is modelled as a sequence of lexical tokens [k, s]: k is the kind  *)
(* ("p" punctuation, "ws" whitespace, "str" a quoted string with content   *)
(* s, "num" a number literal, "lit" a bare word), s the token's text.      *)
(* A JSON value is a record [t, s, keys, items]: t is the JavaScript type, *)
(* s the scalar's canonical text, keys/items the members of an object (in  *)
(* insertion order) or the elements of an array.                           *)
(***************************************************************************)
EXTENDS Integers, Sequences, FiniteSets, TLC

VARIABLES
    store,          \* the document store's state (useDocumentStore)
    pending,        \* loadFile calls whose file.text() has not resolved yet
    view,           \* what the UI around the store holds (view mode, CodeView, modal)
    lastOp,         \* the handler that ran last (observation only)
    jsonRun,        \* JsonParser: content, parse result, serialized text, re-parse
    jsonlRun,       \* JsonlParser: content and parse result
    csvRun,         \* CsvParser: content and parse result
    schemaRun,      \* SchemaExplorer: the records and the inferred schema
    compare         \* the compare store's state (useCompareStore)

vars == <<store, pending, view, lastOp, jsonRun, jsonlRun, csvRun, schemaRun, compare>>

----------------------------------------------------------------------------
(* Bounds of the model                                                      *)

MaxJsonLen == 5        \* tokens in a JSON text given to JsonParser
MaxJsonlLen == 5       \* tokens in a JSONL text given to JsonlParser
MaxCsvLen == 6         \* tokens in a CSV/TSV text given to CsvParser
MaxSchemaRecords == 3  \* records of a document given to the schema explorer
MaxLoads == 2          \* loads (loadFile / loadContent calls) in one behaviour

----------------------------------------------------------------------------
(* Tokens and JSON values                                                   *)

Tok(k, s) == [k |-> k, s |-> s]
LBRACE == Tok("p", "{")
RBRACE == Tok("p", "}")
LBRACK == Tok("p", "[")
RBRACK == Tok("p", "]")
COLON == Tok("p", ":")
COMMA == Tok("p", ",")
SP == Tok("ws", " ")
NL == Tok("ws", "\n")

NumV(s) == [t |-> "number", s |-> s, keys |-> <<>>, items |-> <<>>]
StrV(s) == [t |-> "string", s |-> s, keys |-> <<>>, items |-> <<>>]
BoolV(s) == [t |-> "boolean", s |-> s, keys |-> <<>>, items |-> <<>>]
NullV == [t |-> "null", s |-> "null", keys |-> <<>>, items |-> <<>>]
ArrV(items) == [t |-> "array", s |-> "", keys |-> <<>>, items |-> items]
ObjV(keys, items) == [t |-> "object", s |-> "", keys |-> keys, items |-> items]

\* Bytes of a token's text (Blob size / string length of ASCII text).
TokBytes(tok) == IF tok.k \in {"str", "qcell"} THEN Len(tok.s) + 2 ELSE Len(tok.s)

RECURSIVE TextBytes(_)
TextBytes(t) == IF t = <<>> THEN 0 ELSE TokBytes(Head(t)) + TextBytes(Tail(t))

\* The double a number literal denotes, as its canonical text: a literal beyond
\* the double range is Infinity.
NumberValue(s) ==
    CASE s = "1.0" -> "1"
      [] s = "1e999" -> "Infinity"
      [] s = "-1e999" -> "-Infinity"
      [] OTHER -> s

\* obj[k] = v: a new key is appended, an existing key keeps its place.
RECURSIVE KeyIndex(_, _, _)
KeyIndex(keys, k, i) ==
    IF i > Len(keys) THEN 0
    ELSE IF keys[i] = k THEN i
    ELSE KeyIndex(keys, k, i + 1)

HasKey(v, k) == KeyIndex(v.keys, k, 1) # 0
GetKey(v, k) == v.items[KeyIndex(v.keys, k, 1)]

ObjPut(keys, items, k, v) ==
    LET i == KeyIndex(keys, k, 1) IN
    IF i = 0
    THEN [keys |-> Append(keys, k), items |-> Append(items, v)]
    ELSE [keys |-> keys, items |-> [items EXCEPT ![i] = v]]

----------------------------------------------------------------------------
(* JSON.parse and JSON.stringify (the native functions the parsers call)    *)

RECURSIVE SkipWs(_, _)
SkipWs(t, i) ==
    IF i <= Len(t) /\ t[i].k = "ws" THEN SkipWs(t, i + 1) ELSE i

ParseFail(i) == [ok |-> FALSE, val |-> NullV, next |-> i]
ParseOk(v, i) == [ok |-> TRUE, val |-> v, next |-> i]

RECURSIVE ParseValue(_, _)
RECURSIVE ParseMembers(_, _, _, _)
RECURSIVE ParseElements(_, _, _)

ParseValue(t, i) ==
    LET j == SkipWs(t, i) IN
    IF j > Len(t) THEN ParseFail(j)
    ELSE LET tok == t[j] IN
         CASE tok.k = "num" -> ParseOk(NumV(NumberValue(tok.s)), j + 1)
           [] tok.k = "str" -> ParseOk(StrV(tok.s), j + 1)
           [] tok.k = "lit" /\ tok.s \in {"true", "false"} -> ParseOk(BoolV(tok.s), j + 1)
           [] tok.k = "lit" /\ tok.s = "null" -> ParseOk(NullV, j + 1)
           [] tok = LBRACE ->
                LET k == SkipWs(t, j + 1) IN
                IF k <= Len(t) /\ t[k] = RBRACE
                THEN ParseOk(ObjV(<<>>, <<>>), k + 1)
                ELSE ParseMembers(t, k, <<>>, <<>>)
           [] tok = LBRACK ->
                LET k == SkipWs(t, j + 1) IN
                IF k <= Len(t) /\ t[k] = RBRACK
                THEN ParseOk(ArrV(<<>>), k + 1)
                ELSE ParseElements(t, k, <<>>)
           [] OTHER -> ParseFail(j)

ParseMembers(t, i, keys, items) ==
    LET j == SkipWs(t, i) IN
    IF j > Len(t) \/ t[j].k # "str" THEN ParseFail(j)
    ELSE LET c == SkipWs(t, j + 1) IN
         IF c > Len(t) \/ t[c] # COLON THEN ParseFail(c)
         ELSE LET r == ParseValue(t, c + 1) IN
              IF ~r.ok THEN r
              ELSE LET e == SkipWs(t, r.next)
                       put == ObjPut(keys, items, t[j].s, r.val)
                   IN  IF e > Len(t) THEN ParseFail(e)
                       ELSE IF t[e] = COMMA THEN ParseMembers(t, e + 1, put.keys, put.items)
                       ELSE IF t[e] = RBRACE THEN ParseOk(ObjV(put.keys, put.items), e + 1)
                       ELSE ParseFail(e)

ParseElements(t, i, items) ==
    LET r == ParseValue(t, i) IN
    IF ~r.ok THEN r
    ELSE LET e == SkipWs(t, r.next) IN
         IF e > Len(t) THEN ParseFail(e)
         ELSE IF t[e] = COMMA THEN ParseElements(t, e + 1, Append(items, r.val))
         ELSE IF t[e] = RBRACK THEN ParseOk(ArrV(Append(items, r.val)), e + 1)
         ELSE ParseFail(e)

\* JSON.parse(text): ok = FALSE stands for the SyntaxError it throws, next for
\* the token at which it gave up.
JSONparse(t) ==
    LET r == ParseValue(t, 1) IN
    IF ~r.ok THEN r
    ELSE LET e == SkipWs(t, r.next) IN
         IF e <= Len(t) THEN ParseFail(e) ELSE ParseOk(r.val, e)

RECURSIVE Indent(_)
Indent(n) == IF n = 0 THEN <<>> ELSE <<SP, SP>> \o Indent(n - 1)

\* A number's text: the non-finite doubles are written null.
NumToken(s) ==
    IF s \in {"Infinity", "-Infinity", "NaN"} THEN Tok("lit", "null") ELSE Tok("num", s)

RECURSIVE Stringify(_, _, _)
RECURSIVE StringifyRest(_, _, _, _)

\* JSON.stringify(v) (pretty = FALSE) and JSON.stringify(v, null, 2) (pretty = TRUE).
Stringify(v, pretty, depth) ==
    CASE v.t = "number" -> <<NumToken(v.s)>>
      [] v.t = "string" -> <<Tok("str", v.s)>>
      [] v.t = "boolean" -> <<Tok("lit", v.s)>>
      [] v.t = "null" -> <<Tok("lit", "null")>>
      [] v.t = "array" ->
           IF Len(v.items) = 0 THEN <<LBRACK, RBRACK>>
           ELSE <<LBRACK>> \o StringifyRest(v, pretty, depth + 1, 1) \o <<RBRACK>>
      [] v.t = "object" ->
           IF Len(v.items) = 0 THEN <<LBRACE, RBRACE>>
           ELSE <<LBRACE>> \o StringifyRest(v, pretty, depth + 1, 1) \o <<RBRACE>>

\* The members of v from the n-th on, at nesting depth `depth`.
StringifyRest(v, pretty, depth, n) ==
    LET lead == IF pretty THEN <<NL>> \o Indent(depth) ELSE <<>>
        key == IF v.t = "object"
               THEN <<Tok("str", v.keys[n]), COLON>> \o (IF pretty THEN <<SP>> ELSE <<>>)
               ELSE <<>>
        item == lead \o key \o Stringify(v.items[n], pretty, depth)
    IN  IF n = Len(v.items)
        THEN item \o (IF pretty THEN <<NL>> \o Indent(depth - 1) ELSE <<>>)
        ELSE item \o <<COMMA>> \o StringifyRest(v, pretty, depth, n + 1)

\* Lines of a text: content.split('\n').
RECURSIVE SplitLines(_, _)
SplitLines(t, cur) ==
    IF t = <<>> THEN <<cur>>
    ELSE IF Head(t) = NL THEN <<cur>> \o SplitLines(Tail(t), <<>>)
    ELSE SplitLines(Tail(t), Append(cur, Head(t)))

Split(t) == SplitLines(t, <<>>)

\* content.substring(0, n): n is clamped to the text's length.
Substring(t, n) == SubSeq(t, 1, IF n > Len(t) THEN Len(t) ELSE n)

\* String.prototype.trim.
RECURSIVE TrimStart(_)
TrimStart(t) == IF t # <<>> /\ Head(t).k = "ws" THEN TrimStart(Tail(t)) ELSE t

RECURSIVE TrimEnd(_)
TrimEnd(t) ==
    IF t # <<>> /\ t[Len(t)].k = "ws" THEN TrimEnd(SubSeq(t, 1, Len(t) - 1)) ELSE t

Trim(t) == TrimEnd(TrimStart(t))

----------------------------------------------------------------------------
(* JsonParser                                                               *)

NonStandard == {"NaN", "Infinity", "-Infinity", "undefined"}

\* What a non-standard literal after a colon is rewritten to.
Sanitized(s) == IF s = "undefined" THEN Tok("lit", "null") ELSE Tok("str", s)

RECURSIVE Sanitize(_, _)
Sanitize(t, i) ==
    IF i > Len(t) THEN <<>>
    ELSE LET j == SkipWs(t, i + 1) IN
         IF t[i] = COLON /\ j <= Len(t) /\ t[j].k = "lit" /\ t[j].s \in NonStandard
         THEN <<COLON, SP, Sanitized(t[j].s)>> \o Sanitize(t, j + 1)
         ELSE <<t[i]>> \o Sanitize(t, i + 1)

lenientJsonParse(t) == JSONparse(Sanitize(t, 1))

ErrorEntry(line, msg, severity) == [line |-> line, message |-> msg, severity |-> severity]

\* A variant of Record that drops the record's errors (sensitivity of C7).
Record_dropsErrors(index, data, raw, errors) ==
    [index |-> index, data |-> data, raw |-> raw, errors |-> <<>>, size |-> TextBytes(raw)]

Record(index, data, raw, errors) ==
    [index |-> index, data |-> data, raw |-> raw, errors |-> errors, size |-> TextBytes(raw)]

\* ParseOptions: lenient is "true", "false" or "unset"; maxRecords is <<>> when
\* unset and <<n>> otherwise.
Options(lenient, maxRecords) == [lenient |-> lenient, maxRecords |-> maxRecords]

\* The options every caller in the repository passes: { lenient: true }.
LoadOptions == Options("true", <<>>)

\* The characters of a text, one token each: NL for a newline, CHAR for any
\* other character.
CHAR == Tok("char", "c")

RECURSIVE Chars(_)
Chars(t) ==
    IF t = <<>> THEN <<>>
    ELSE [k \in 1..TokBytes(Head(t)) |-> IF Head(t) = NL THEN NL ELSE CHAR] \o Chars(Tail(t))

\* The engines' SyntaxError messages: "position" names the character index of
\* the token JSON.parse stopped at ("... in JSON at position N") and names no
\* position at the end of the input; "none" never names a position.
Engines == {"position", "none"}

\* error.message.match(/position (\d+)/): <<>> when there is no match, else
\* <<position>>; failed is what JSON.parse gave for text.
MatchPosition(engine, failed, text) ==
    IF engine = "position" /\ failed.next <= Len(text)
    THEN <<TextBytes(SubSeq(text, 1, failed.next - 1))>>
    ELSE <<>>

\* A variant of CatchEntry with 0-based line and column (sensitivity of C12).
CatchEntry_zeroBased(position, content) ==
    IF position = <<>>
    THEN [line |-> 0, column |-> 0, message |-> "SyntaxError", severity |-> "error"]
    ELSE LET lines == Split(Substring(Chars(content), position[1])) IN
         [line |-> Len(lines) - 1, column |-> Len(lines[Len(lines)]),
          message |-> "SyntaxError", severity |-> "error"]

\* The entry the catch block pushes: line and column are 0 when undefined.
\* lines is content.substring(0, position).split('\n') over characters.
CatchEntry(position, content) ==
    IF position = <<>>
    THEN [line |-> 0, column |-> 0, message |-> "SyntaxError", severity |-> "error"]
    ELSE LET lines == Split(Substring(Chars(content), position[1])) IN
         [line |-> Len(lines), column |-> Len(lines[Len(lines)]) + 1,
          message |-> "SyntaxError", severity |-> "error"]

\* JsonParser.parse(content, fileName, options); id is what generateId() returns.
\* strict is what JSON.parse gives for the content, loose what lenientJsonParse
\* gives (consulted only when JSON.parse threw), position what the catch block
\* finds in the message of the error thrown.
JsonParserResult(strict, loose, lenient, position, content, fileName, id) ==
    LET used == IF strict.ok THEN strict ELSE loose
        threw == ~strict.ok /\ (~lenient \/ ~loose.ok)
    IN  IF threw
        THEN [success |-> FALSE, document |-> <<>>,
              errors |-> <<CatchEntry(position, content)>>]
        ELSE [success |-> TRUE,
              document |-> <<[id |-> id, fileName |-> fileName, format |-> "json",
                              records |-> <<Record(0, used.val, content, <<>>)>>,
                              meta |-> [lineCount |-> Len(Split(content))],
                              isMultiRecord |-> FALSE,
                              totalRecords |-> 1,
                              totalSize |-> TextBytes(content)]>>,
              errors |-> IF strict.ok THEN <<>>
                         ELSE <<ErrorEntry(0, "File contained non-standard JSON values", "warning")>>]

\* The position in the message of the error JsonParser.parse catches: the
\* error of lenientJsonParse (on the rewritten text) when lenient, else the
\* error of JSON.parse.
ThrownPosition(engine, content, options) ==
    IF options.lenient = "true"
    THEN MatchPosition(engine, lenientJsonParse(content), Sanitize(content, 1))
    ELSE MatchPosition(engine, JSONparse(content), content)

JsonParserParseOn(engine, content, fileName, options, id) ==
    JsonParserResult(JSONparse(content), lenientJsonParse(content),
                     options.lenient = "true", ThrownPosition(engine, content, options),
                     content, fileName, id)

JsonParserParse(content, fileName, options, id) ==
    JsonParserParseOn("position", content, fileName, options, id)

\* JsonParser.serialize(document).
JsonParserSerialize(document) ==
    IF Len(document.records) = 0 THEN <<>>
    ELSE Stringify(document.records[1].data, TRUE, 0)

----------------------------------------------------------------------------
(* The JSON parser run on every short text: parse, serialize, parse again   *)

JsonAlphabet ==
    {LBRACE, RBRACE, COLON, COMMA, NL,
     Tok("num", "1"), Tok("num", "1e999"), Tok("str", "a"), Tok("lit", "NaN"),
     Tok("lit", "undefined")}

Texts(alphabet, n) == UNION {[1..k -> alphabet] : k \in 0..n}

NoResult == [success |-> FALSE, document |-> <<>>, errors |-> <<>>]

\* position is the position the catch block found in the message, if any.
\* fileName and parser belong to the run of parseFile further down.
JsonIdle ==
    [pc |-> "idle", content |-> <<>>, options |-> LoadOptions, position |-> <<>>,
     result |-> NoResult, serialized |-> <<>>, reparsed |-> NoResult,
     fileName |-> <<"data", "json">>, parser |-> "none"]

JsonInit ==
    \E c \in Texts(JsonAlphabet, MaxJsonLen), l \in {"true", "unset"} :
        jsonRun = [JsonIdle EXCEPT !.pc = "start", !.content = c,
                                   !.options = Options(l, <<>>)]

JsonParse ==
    /\ jsonRun.pc = "start"
    /\ \E engine \in Engines :
          jsonRun' = [jsonRun EXCEPT
                        !.pc = "parsed",
                        !.position = ThrownPosition(engine, jsonRun.content, jsonRun.options),
                        !.result = JsonParserParseOn(engine, jsonRun.content, <<"data", "json">>,
                                                     jsonRun.options, 1)]
    /\ UNCHANGED <<store, pending, view, lastOp, jsonlRun, csvRun, schemaRun, compare>>

JsonSerialize ==
    /\ jsonRun.pc = "parsed"
    /\ jsonRun.result.success
    /\ jsonRun' = [jsonRun EXCEPT
                     !.pc = "serialized",
                     !.serialized = JsonParserSerialize(jsonRun.result.document[1])]
    /\ UNCHANGED <<store, pending, view, lastOp, jsonlRun, csvRun, schemaRun, compare>>

JsonReparse ==
    /\ jsonRun.pc = "serialized"
    /\ jsonRun' = [jsonRun EXCEPT
                     !.pc = "done",
                     !.reparsed = JsonParserParse(jsonRun.serialized, <<"data", "json">>, jsonRun.options, 2)]
    /\ UNCHANGED <<store, pending, view, lastOp, jsonlRun, csvRun, schemaRun, compare>>

JsonNext == JsonParse \/ JsonSerialize \/ JsonReparse

----------------------------------------------------------------------------
(* JsonlParser                                                              *)

\* The text of a token sequence, as a JavaScript string.
RECURSIVE TextString(_)
TextString(t) ==
    IF t = <<>> THEN ""
    ELSE (IF Head(t).k = "str" THEN "\"" \o Head(t).s \o "\"" ELSE Head(t).s)
         \o TextString(Tail(t))

\* The placeholder data of a line that failed to parse: { _raw: line, _error: true }.
Placeholder(line) == ObjV(<<"_raw", "_error">>, <<StrV(TextString(line)), BoolV("true")>>)

\* JSON.parse(line), with the lenient parse as the fallback when it throws
\* (lines 32-42); strict is what JSON.parse gave.
ParseLine(strict, line, options) ==
    IF strict.ok THEN strict
    ELSE IF options.lenient # "false" THEN lenientJsonParse(line)
    ELSE strict

\* The records.push of the try block, or the catch block's error and
\* placeholder record, for line i (1-based) with its parse result.
PushLine(acc, line, i, parsed, parseError) ==
    IF parsed.ok
    THEN [acc EXCEPT
            !.records = Append(@, Record(Len(acc.records), parsed.val, line, <<>>)),
            !.totalSize = @ + TextBytes(line)]
    ELSE [acc EXCEPT
            !.records = Append(@, Record(Len(acc.records), Placeholder(line),
                                         line, <<parseError>>)),
            !.errors = Append(@, parseError),
            !.totalSize = @ + TextBytes(line)]

\* One pass of the for loop's body on the trimmed line i; a blank line is
\* skipped.
LoopBody(acc, line, i, options) ==
    IF line = <<>> THEN acc
    ELSE PushLine(acc, line, i, ParseLine(JSONparse(line), line, options),
                  ErrorEntry(i, "SyntaxError", "error"))

\* The for loop of JsonlParser.parse, from line i (1-based) on; acc holds
\* records, errors and totalSize.
RECURSIVE JsonlLoop(_, _, _, _)
JsonlLoop(lines, i, options, acc) ==
    IF ~(i <= Len(lines)
         /\ (options.maxRecords = <<>> \/ Len(acc.records) < options.maxRecords[1]))
    THEN acc
    ELSE JsonlLoop(lines, i + 1, options, LoopBody(acc, Trim(lines[i]), i, options))

HasError(errors) == \E k \in 1..Len(errors) : errors[k].severity = "error"

\* What JsonlParser.parse returns after the loop (lines 71-97).
JsonlResult(lines, acc, fileName, id) ==
    IF Len(acc.records) = 0
    THEN [success |-> FALSE, document |-> <<>>,
          errors |-> Append(acc.errors,
                            ErrorEntry(0, "No valid JSON objects found in file", "error"))]
    ELSE [success |-> ~HasError(acc.errors) \/ Len(acc.records) > 0,
          document |-> <<[id |-> id, fileName |-> fileName, format |-> "jsonl",
                          records |-> acc.records,
                          meta |-> [lineCount |-> Len(lines)],
                          isMultiRecord |-> TRUE,
                          totalRecords |-> Len(acc.records),
                          totalSize |-> acc.totalSize]>>,
          errors |-> acc.errors]

JsonlLines(lines, fileName, options, id) ==
    JsonlResult(lines,
                JsonlLoop(lines, 1, options,
                          [records |-> <<>>, errors |-> <<>>, totalSize |-> 0]),
                fileName, id)

\* JsonlParser.parse(content, fileName, options).
JsonlParserParse(content, fileName, options, id) ==
    JsonlLines(Split(Trim(content)), fileName, options, id)

RECURSIVE JoinLines(_)
JoinLines(ls) ==
    IF ls = <<>> THEN <<>>
    ELSE IF Len(ls) = 1 THEN ls[1]
    ELSE ls[1] \o <<NL>> \o JoinLines(Tail(ls))

\* JsonlParser.serialize(document).
JsonlParserSerialize(document) ==
    JoinLines([k \in 1..Len(document.records) |->
                 Stringify(document.records[k].data, FALSE, 0)])

----------------------------------------------------------------------------
(* The JSONL parser run on every short text                                 *)

JsonlAlphabet ==
    {NL, SP, Tok("ws", "\r"), LBRACE, RBRACE, Tok("num", "1"), Tok("lit", "x")}

JsonlIdle ==
    [pc |-> "idle", content |-> <<>>, options |-> LoadOptions, result |-> NoResult]

JsonlInit ==
    \E c \in Texts(JsonlAlphabet, MaxJsonlLen), l \in {"true", "false", "unset"} :
        jsonlRun = [JsonlIdle EXCEPT !.pc = "start", !.content = c,
                                     !.options = Options(l, <<>>)]

JsonlParse ==
    /\ jsonlRun.pc = "start"
    /\ jsonlRun' = [jsonlRun EXCEPT
                      !.pc = "parsed",
                      !.result = JsonlParserParse(jsonlRun.content, <<"data", "jsonl">>,
                                                  jsonlRun.options, 1)]
    /\ UNCHANGED <<store, pending, view, lastOp, jsonRun, csvRun, schemaRun, compare>>

JsonlNext == JsonlParse

----------------------------------------------------------------------------
(* CsvParser.  Papa.parse is the papaparse library; it is modelled as the   *)
(* parser calls it: header: true, skipEmptyLines: true, dynamicTyping: true *)
(* (no caller passes hasHeaders or delimiter).  A CSV text is a sequence of *)
(* cell tokens ("cell"), delimiters and line breaks.                        *)

TAB == Tok("p", "\t")

\* The fields of one line: the text between delimiters.
RECURSIVE SplitFields(_, _, _)
SplitFields(line, delim, cur) ==
    IF line = <<>> THEN <<cur>>
    ELSE IF Head(line) = delim THEN <<cur>> \o SplitFields(Tail(line), delim, "")
    ELSE SplitFields(Tail(line), delim, cur \o Head(line).s)

\* dynamicTyping: numbers and booleans are converted, the empty field is null.
DynamicType(text) ==
    CASE text = "" -> NullV
      [] text \in {"0", "1", "2"} -> NumV(text)
      [] text \in {"true", "false"} -> BoolV(text)
      [] OTHER -> StrV(text)

\* One data row as an object keyed by the header fields; fields past the header
\* are collected in the array __parsed_extra, fields the row lacks are absent.
RECURSIVE RowObject(_, _, _, _)
RowObject(fields, header, j, obj) ==
    IF j > Len(fields) THEN obj
    ELSE LET v == DynamicType(fields[j])
             extra == IF HasKey(obj, "__parsed_extra")
                      THEN GetKey(obj, "__parsed_extra").items ELSE <<>>
             put == IF j > Len(header)
                    THEN ObjPut(obj.keys, obj.items, "__parsed_extra", ArrV(Append(extra, v)))
                    ELSE ObjPut(obj.keys, obj.items, header[j], v)
         IN  RowObject(fields, header, j + 1, ObjV(put.keys, put.items))

\* testEmptyLine: a row of one empty field.
EmptyRow(r) == Len(r) = 1 /\ r[1] = ""

PapaError(type, code, row) == [type |-> type, code |-> code, row |-> row]

RECURSIVE PapaRows(_, _, _, _)
PapaRows(rows, header, k, acc) ==
    IF k > Len(rows) THEN acc
    ELSE LET n == Len(rows[k])
             err == IF n > Len(header) THEN <<PapaError("FieldMismatch", "TooManyFields", k - 1)>>
                    ELSE IF n < Len(header) THEN <<PapaError("FieldMismatch", "TooFewFields", k - 1)>>
                    ELSE <<>>
         IN  PapaRows(rows, header, k + 1,
                      [data |-> Append(acc.data, RowObject(rows[k], header, 1, ObjV(<<>>, <<>>))),
                       errors |-> acc.errors \o err])

\* Papa.parse(content, {header: true, delimiter, skipEmptyLines: true, dynamicTyping: true}).
PapaParse(content, delim) ==
    LET lines == Split(content)
        all == [k \in 1..Len(lines) |-> SplitFields(lines[k], delim, "")]
        rows == SelectSeq(all, LAMBDA r : ~EmptyRow(r))
    IN  IF rows = <<>>
        THEN [data |-> <<>>, errors |-> <<>>, fields |-> <<>>, delimiter |-> delim]
        ELSE LET got == PapaRows(Tail(rows), Head(rows), 1, [data |-> <<>>, errors |-> <<>>])
             IN  [data |-> got.data, errors |-> got.errors,
                  fields |-> Head(rows), delimiter |-> delim]

\* guessDelimiter's loop over the preview rows for one delimiter: sum and count
\* give the average field count of the non-empty rows, delta the total change
\* of the field count from row to row; prev is 0 - 1 while undefined.
RECURSIVE GuessRows(_, _, _, _)
GuessRows(rows, j, prev, acc) ==
    IF j > Len(rows) THEN acc
    ELSE IF EmptyRow(rows[j]) THEN GuessRows(rows, j + 1, prev, acc)
    ELSE IF prev < 0
    THEN GuessRows(rows, j + 1, Len(rows[j]),
                   [acc EXCEPT !.sum = @ + Len(rows[j]), !.count = @ + 1])
    ELSE GuessRows(rows, j + 1, Len(rows[j]),
                   [acc EXCEPT !.sum = @ + Len(rows[j]), !.count = @ + 1,
                               !.delta = @ + (IF Len(rows[j]) > prev
                                              THEN Len(rows[j]) - prev
                                              ELSE prev - Len(rows[j]))])

\* The first 10 rows of the text split on delim (the preview of guessDelimiter).
Preview(content, delim) ==
    LET lines == Split(content) IN
    [k \in 1..(IF Len(lines) < 10 THEN Len(lines) ELSE 10) |-> SplitFields(lines[k], delim, "")]

\* One pass of guessDelimiter's outer loop: best is <<>> while no delimiter has
\* been chosen, else <<[delim, delta, sum, count]>>.  The averages sum/count
\* are compared by cross multiplication; avgFieldCount > 1.99 is
\* 100 * sum > 199 * count.
GuessStep(best, delim, stats) ==
    IF /\ stats.count > 0
       /\ (best = <<>> \/ stats.delta <= best[1].delta)
       /\ (best = <<>> \/ stats.sum * best[1].count > best[1].sum * stats.count)
       /\ 100 * stats.sum > 199 * stats.count
    THEN <<[delim |-> delim, delta |-> stats.delta, sum |-> stats.sum, count |-> stats.count]>>
    ELSE best

GuessFor(best, content, delim) ==
    GuessStep(best, delim,
              GuessRows(Preview(content, delim), 1, 0 - 1, [sum |-> 0, count |-> 0, delta |-> 0]))

\* guessDelimiter(input, ...) over the delimiters a text of the model can hold
\* (',' then '\t'; the other candidates split no line): <<>> when the guess
\* fails.
guessDelimiter(content) == GuessFor(GuessFor(<<>>, content, COMMA), content, TAB)

\* The Delimiter error has no row (row 0 - 1 stands for undefined).
WithDelimiterError(result) ==
    [result EXCEPT !.errors = <<PapaError("Delimiter", "UndetectableDelimiter", 0 - 1)>> \o @]

\* Papa.parse with no delimiter configured: the delimiter is guessed, and when
\* the guess fails the parse runs with ',' and reports a Delimiter error.
PapaAuto(content, guess) ==
    IF guess = <<>> THEN WithDelimiterError(PapaParse(content, COMMA))
    ELSE PapaParse(content, guess[1].delim)

SampleSize == 100

isDateString(text) == text \in {"2024-01-15"}

\* The type name inferColumnType adds for one value; a key the row lacks reads
\* undefined.
ValueTypeName(row, key) ==
    IF ~HasKey(row, key) THEN "null"
    ELSE LET v == GetKey(row, key) IN
         CASE v.t = "null" -> "null"
           [] v.t = "string" /\ v.s = "" -> "null"
           [] v.t = "string" /\ isDateString(v.s) -> "date"
           [] OTHER -> v.t

\* A variant of inferColumnType that reads every row (sensitivity of C15).
inferColumnType_everyRow(data, key) ==
    LET types == {ValueTypeName(data[i], key) : i \in 1..Len(data)} \ {"null"}
    IN  IF types = {} THEN "null"
        ELSE IF Cardinality(types) = 1 THEN CHOOSE x \in types : TRUE
        ELSE "mixed"

inferColumnType(data, key) ==
    LET sampleSize == IF Len(data) < SampleSize THEN Len(data) ELSE SampleSize
        types == {ValueTypeName(data[i], key) : i \in 1..sampleSize} \ {"null"}
    IN  IF types = {} THEN "null"
        ELSE IF Cardinality(types) = 1 THEN CHOOSE x \in types : TRUE
        ELSE "mixed"

\* inferColumns(data): one column per key of the first row.
inferColumns(data) ==
    IF Len(data) = 0 THEN <<>>
    ELSE [j \in 1..Len(data[1].keys) |->
            [field |-> data[1].keys[j], headerName |-> data[1].keys[j],
             type |-> inferColumnType(data, data[1].keys[j])]]

\* Papa.unparse([row], {header: false}): the row's values, comma separated.
RECURSIVE UnparseRow(_, _)
UnparseRow(row, j) ==
    IF j > Len(row.items) THEN <<>>
    ELSE (IF j > 1 THEN <<COMMA>> ELSE <<>>)
         \o (IF row.items[j].t \in {"null", "array"} THEN <<>>
             ELSE <<Tok("cell", row.items[j].s)>>)
         \o UnparseRow(row, j + 1)

\* A file name is the sequence of its dot-separated parts: data.tsv is
\* <<"data", "tsv">>.  toLowerCase on the parts that occur in upper case:
ToLower(text) ==
    CASE text = "JSON" -> "json"
      [] text = "JSONL" -> "jsonl"
      [] text = "CSV" -> "csv"
      [] text = "TSV" -> "tsv"
      [] OTHER -> text

\* fileName.toLowerCase().endsWith('.' + ext)
EndsWith(fileName, ext) ==
    Len(fileName) >= 2 /\ ToLower(fileName[Len(fileName)]) = ext

isTsv(fileName) == EndsWith(fileName, "tsv")

\* Papa.parse(content, {header, delimiter: isTsv ? '\t' : undefined, ...}).
PapaParseFile(content, fileName) ==
    IF isTsv(fileName) THEN PapaParse(content, TAB)
    ELSE PapaAuto(content, guessDelimiter(content))

\* The rest of CsvParser.parse on the result of Papa.parse.
CsvParserResult(parseResult, content, fileName, id) ==
    LET errors == [k \in 1..Len(parseResult.errors) |->
                     ErrorEntry(parseResult.errors[k].row + 1, parseResult.errors[k].code,
                                IF parseResult.errors[k].type = "FieldMismatch"
                                THEN "warning" ELSE "error")]
        data == parseResult.data
    IN  IF Len(data) = 0
        THEN [success |-> FALSE, document |-> <<>>,
              errors |-> Append(errors, ErrorEntry(0, "No data found in file", "error"))]
        ELSE [success |-> ~HasError(errors),
              document |-> <<[id |-> id, fileName |-> fileName,
                              format |-> IF isTsv(fileName) THEN "tsv" ELSE "csv",
                              records |-> [k \in 1..Len(data) |->
                                             [index |-> k - 1, data |-> data[k],
                                              raw |-> UnparseRow(data[k], 1),
                                              errors |-> <<>>,
                                              size |-> TextBytes(Stringify(data[k], FALSE, 0))]],
                              meta |-> [lineCount |-> Len(Split(content)),
                                        delimiter |-> parseResult.delimiter.s,
                                        hasHeaders |-> TRUE,
                                        columns |-> inferColumns(data)],
                              isMultiRecord |-> TRUE,
                              totalRecords |-> Len(data),
                              totalSize |-> TextBytes(content)]>>,
              errors |-> errors]

\* CsvParser.parse(content, fileName, options).
CsvParserParse(content, fileName, options, id) ==
    CsvParserResult(PapaParseFile(content, fileName), content, fileName, id)

----------------------------------------------------------------------------
(* The CSV parser run on every short text                                   *)

CsvAlphabet ==
    {COMMA, TAB, NL, Tok("cell", "a"), Tok("cell", "b"), Tok("cell", "1")}

\* data and type belong to the run of inferColumnType below.
CsvIdle ==
    [pc |-> "idle", content |-> <<>>, fileName |-> <<"data", "csv">>, result |-> NoResult,
     fields |-> <<>>, data |-> <<>>, type |-> ""]

CsvInit ==
    \E c \in Texts(CsvAlphabet, MaxCsvLen), f \in {<<"data", "csv">>, <<"data", "tsv">>} :
        csvRun = [CsvIdle EXCEPT !.pc = "start", !.content = c, !.fileName = f]

\* fields records the header row the tokenizer read (parseResult.meta.fields).
CsvParse ==
    /\ csvRun.pc = "start"
    /\ csvRun' = [csvRun EXCEPT
                    !.pc = "parsed",
                    !.result = CsvParserParse(csvRun.content, csvRun.fileName, LoadOptions, 1),
                    !.fields = PapaParseFile(csvRun.content, csvRun.fileName).fields]
    /\ UNCHANGED <<store, pending, view, lastOp, jsonRun, jsonlRun, schemaRun, compare>>

----------------------------------------------------------------------------
(* inferColumnType run on columns around the sample size: a few rows, then  *)
(* one row repeated, then a few rows.                                       *)

MaxHead == 1
MaxTail == 2

\* The rows of a column "a": the key missing, null, '', a string, a number.
ColumnRows ==
    {ObjV(<<>>, <<>>)} \cup
    {ObjV(<<"a">>, <<v>>) : v \in {NullV, StrV(""), StrV("a"), NumV("1")}}

Rows(row, n) == [i \in 1..n |-> row]

ColumnsInit ==
    \E head \in Texts(ColumnRows, MaxHead), tail \in Texts(ColumnRows, MaxTail),
       row \in ColumnRows, n \in {0} \cup ((SampleSize - 2)..SampleSize) :
        csvRun = [CsvIdle EXCEPT !.pc = "rows", !.data = head \o Rows(row, n) \o tail]

ColumnsInfer ==
    /\ csvRun.pc = "rows"
    /\ csvRun' = [csvRun EXCEPT !.pc = "inferred",
                                !.type = inferColumnType(csvRun.data, "a")]
    /\ UNCHANGED <<store, pending, view, lastOp, jsonRun, jsonlRun, schemaRun, compare>>

ColumnsNext == ColumnsInfer

----------------------------------------------------------------------------
(* SchemaExplorer: the schema tree computed from document.records.  The     *)
(* traversal is modelled as the sequence of its visits, in visiting order;  *)
(* a visit is what getOrCreateNode / recordsWithKey.add / types.add receive.*)
(* A schema node is identified by its path, the keys from the root.         *)

DepthLimit == 3
ArraySample == 3
RootSample == 10

getType(value) == value.t

Slice(items, n) == SubSeq(items, 1, IF Len(items) < n THEN Len(items) ELSE n)

Visit(path, recordIndex, type) == [path |-> path, rec |-> recordIndex, type |-> type]

RECURSIVE analyzeObject(_, _, _, _)
RECURSIVE analyzeEntries(_, _, _, _, _)
RECURSIVE analyzeItems(_, _, _, _)

\* The for-loop over the items of an array (already sliced by the caller).
analyzeItems(items, recordIndex, depth, parentPath) ==
    IF items = <<>> THEN <<>>
    ELSE (IF Head(items).t = "object"
          THEN analyzeObject(Head(items), recordIndex, depth, parentPath)
          ELSE <<>>)
         \o analyzeItems(Tail(items), recordIndex, depth, parentPath)

\* The body of the loop over Object.entries(obj), from entry j on.
analyzeEntries(obj, j, recordIndex, depth, parentPath) ==
    IF j > Len(obj.keys) THEN <<>>
    ELSE LET value == obj.items[j]
             currentPath == Append(parentPath, obj.keys[j])
             nested ==
                 IF depth < DepthLimit /\ value.t = "object"
                 THEN analyzeObject(value, recordIndex, depth + 1, currentPath)
                 ELSE IF depth < DepthLimit /\ value.t = "array" /\ Len(value.items) > 0
                 THEN analyzeItems(Slice(value.items, ArraySample), recordIndex,
                                   depth + 1, currentPath)
                 ELSE <<>>
         IN  <<Visit(currentPath, recordIndex, getType(value))>> \o nested
             \o analyzeEntries(obj, j + 1, recordIndex, depth, parentPath)

analyzeObject(obj, recordIndex, depth, parentPath) ==
    analyzeEntries(obj, 1, recordIndex, depth, parentPath)

\* A variant of analyzeValue that skips records whose root is an array
\* (sensitivity of C8).
analyzeValue_objectsOnly(data, recordIndex) ==
    IF data.t = "object" THEN analyzeObject(data, recordIndex, 0, <<>>) ELSE <<>>

\* A variant of analyzeValue that inspects every element of a root array
\* (sensitivity of C23).
analyzeValue_wholeRoot(data, recordIndex) ==
    IF data.t = "array"
    THEN analyzeItems(data.items, recordIndex, 0, <<>>)
    ELSE IF data.t = "object"
    THEN analyzeObject(data, recordIndex, 0, <<>>)
    ELSE <<>>

analyzeValue(data, recordIndex) ==
    IF data.t = "array"
    THEN analyzeItems(Slice(data.items, RootSample), recordIndex, 0, <<>>)
    ELSE IF data.t = "object"
    THEN analyzeObject(data, recordIndex, 0, <<>>)
    ELSE <<>>

\* records.forEach((record, recordIndex) => analyzeValue(record.data, recordIndex))
RECURSIVE analyzeRecords(_, _)
analyzeRecords(records, k) ==
    IF k > Len(records) THEN <<>>
    ELSE analyzeValue(records[k], k - 1) \o analyzeRecords(records, k + 1)

\* The schema tree as a set of nodes; firstOccurrence orders the nodes as
\* sortNodes does (the position of the visit that created the node).
FirstVisit(visits, path) == CHOOSE i \in 1..Len(visits) :
    visits[i].path = path /\ \A j \in 1..(i - 1) : visits[j].path # path

Schema(records) ==
    LET visits == analyzeRecords(records, 1)
        paths == {visits[i].path : i \in 1..Len(visits)}
    IN  {[path |-> p,
          key |-> p[Len(p)],
          types |-> {visits[i].type : i \in {j \in 1..Len(visits) : visits[j].path = p}},
          recordsWithKey |-> {visits[i].rec : i \in {j \in 1..Len(visits) : visits[j].path = p}},
          totalRecords |-> Len(records),
          firstOccurrence |-> FirstVisit(visits, p)] : p \in paths}

\* renderNode: what is displayed for one node.
renderNode(node) ==
    LET count == Cardinality(node.recordsWithKey)
        isConsistent == count = node.totalRecords
        isMultiRecord == node.totalRecords > 1
    IN  [path |-> node.path, count |-> count, total |-> node.totalRecords,
         inconsistent |-> isMultiRecord /\ ~isConsistent,
         badge |-> IF ~isMultiRecord THEN "none"
                   ELSE IF isConsistent THEN "consistent" ELSE "inconsistent"]

----------------------------------------------------------------------------
(* The schema explorer run on documents of a few records                    *)

One == NumV("1")

RECURSIVE Repeat(_, _)
Repeat(v, n) == IF n = 0 THEN <<>> ELSE <<v>> \o Repeat(v, n - 1)

RECURSIVE Nest(_, _, _)
Nest(k, v, n) == IF n = 0 THEN v ELSE ObjV(<<k>>, <<Nest(k, v, n - 1)>>)

\* Record values: flat objects, an object nested past the depth limit, arrays
\* longer than the samples, and a scalar.
SchemaValues ==
    { ObjV(<<"a">>, <<One>>),
      ObjV(<<"a", "b">>, <<NumV("2"), NumV("3")>>),
      ObjV(<<"b">>, <<NullV>>),
      Nest("a", ObjV(<<"b">>, <<One>>), DepthLimit + 1),
      Nest("a", ObjV(<<"b">>, <<One>>), 1),
      ObjV(<<"a">>, <<ArrV(Repeat(ObjV(<<>>, <<>>), ArraySample) \o <<ObjV(<<"b">>, <<One>>)>>)>>),
      ObjV(<<"a">>, <<ArrV(<<ObjV(<<"b">>, <<One>>)>>)>>),
      ArrV(Repeat(One, RootSample) \o <<ObjV(<<"a">>, <<One>>)>>),
      ArrV(<<ObjV(<<"a">>, <<One>>)>>),
      One }

SchemaIdle == [pc |-> "idle", records |-> <<>>, nodes |-> {}, rendered |-> {}]

SchemaInit ==
    \E n \in 1..MaxSchemaRecords : \E r \in [1..n -> SchemaValues] :
        schemaRun = [SchemaIdle EXCEPT !.pc = "start", !.records = r]

SchemaCompute ==
    /\ schemaRun.pc = "start"
    /\ schemaRun' = [schemaRun EXCEPT !.pc = "computed",
                                      !.nodes = Schema(schemaRun.records)]
    /\ UNCHANGED <<store, pending, view, lastOp, jsonRun, jsonlRun, csvRun, compare>>

SchemaRender ==
    /\ schemaRun.pc = "computed"
    /\ schemaRun' = [schemaRun EXCEPT !.pc = "rendered",
                                      !.rendered = {renderNode(n) : n \in schemaRun.nodes}]
    /\ UNCHANGED <<store, pending, view, lastOp, jsonRun, jsonlRun, csvRun, compare>>

SchemaNext == SchemaCompute \/ SchemaRender

----------------------------------------------------------------------------
(* Parser selection (parsers/index.ts) and detectFormat (core/types.ts)     *)

detectFormat(fileName) ==
    LET ext == ToLower(fileName[Len(fileName)]) IN
    CASE ext = "json" -> "json"
      [] ext \in {"jsonl", "ndjson"} -> "jsonl"
      [] ext = "csv" -> "csv"
      [] ext = "tsv" -> "tsv"
      [] ext = "xml" -> "xml"
      [] ext \in {"yaml", "yml"} -> "yaml"
      [] OTHER -> "none"

\* parsers.find(p => p.formats.includes(format)); "none" when there is none.
getParser(format) ==
    CASE format = "json" -> "JsonParser"
      [] format = "jsonl" -> "JsonlParser"
      [] format \in {"csv", "tsv"} -> "CsvParser"
      [] OTHER -> "none"

StartsWithBrace(t) == t # <<>> /\ Head(t) \in {LBRACE, LBRACK}

canParse(parser, fileName, content) ==
    CASE parser = "JsonParser" ->
             EndsWith(fileName, "json") \/ (content # <<>> /\ StartsWithBrace(Trim(content)))
      [] parser = "JsonlParser" -> EndsWith(fileName, "jsonl") \/ EndsWith(fileName, "ndjson")
      [] parser = "CsvParser" -> EndsWith(fileName, "csv") \/ EndsWith(fileName, "tsv")
      [] OTHER -> FALSE

firstCanParse(byFormat, fileName, content) ==
    IF byFormat # "none" THEN byFormat
    ELSE IF canParse("JsonParser", fileName, content) THEN "JsonParser"
    ELSE IF canParse("JsonlParser", fileName, content) THEN "JsonlParser"
    ELSE IF canParse("CsvParser", fileName, content) THEN "CsvParser"
    ELSE "none"

getParserForFile(fileName, content) ==
    firstCanParse(getParser(detectFormat(fileName)), fileName, content)

parseWith(parser, content, fileName, options, id) ==
    CASE parser = "JsonParser" -> JsonParserParse(content, fileName, options, id)
      [] parser = "JsonlParser" -> JsonlParserParse(content, fileName, options, id)
      [] parser = "CsvParser" -> CsvParserParse(content, fileName, options, id)
      [] OTHER -> [success |-> FALSE, document |-> <<>>,
                   errors |-> <<ErrorEntry(0, "Unsupported file format", "error")>>]

parseFile(content, fileName, options, id) ==
    parseWith(getParserForFile(fileName, content), content, fileName, options, id)

----------------------------------------------------------------------------
(* parseFile run on every short content under every kind of file name       *)

MaxSelectLen == 3

SelectAlphabet ==
    {LBRACE, RBRACE, LBRACK, SP, NL, COMMA, Tok("num", "1")}

\* Names with each known extension, with other extensions, with none, and
\* bare names that spell an extension.
SelectNames ==
    {<<"data", e>> : e \in {"json", "JSON", "jsonl", "ndjson", "csv", "tsv",
                            "xml", "yaml", "yml", "txt"}}
    \cup {<<"data">>, <<"json">>, <<"csv">>}

SelectInit ==
    \E c \in Texts(SelectAlphabet, MaxSelectLen), n \in SelectNames :
        jsonRun = [JsonIdle EXCEPT !.pc = "named", !.content = c, !.fileName = n]

SelectParse ==
    /\ jsonRun.pc = "named"
    /\ jsonRun' = [jsonRun EXCEPT
                     !.pc = "selected",
                     !.parser = getParserForFile(jsonRun.fileName, jsonRun.content),
                     !.result = parseFile(jsonRun.content, jsonRun.fileName, LoadOptions, 1)]
    /\ UNCHANGED <<store, pending, view, lastOp, jsonlRun, csvRun, schemaRun, compare>>

SelectNext == SelectParse

----------------------------------------------------------------------------
(* The document store (useDocumentStore).  The store is one record; every   *)
(* store operation is an operator from the store (and its arguments) to the *)
(* store it leaves.  document and loadError are <<>> when null.  The        *)
(* modification map is the sequence of its entries in insertion order.      *)

initialSearchState ==
    [globalTerm |-> "", inDocTerm |-> "", currentMatch |-> 0, totalMatches |-> 0,
     useRegex |-> FALSE, caseSensitive |-> FALSE]

initialEditorState ==
    [isEditing |-> FALSE, hasChanges |-> FALSE, modifiedRecords |-> <<>>]

initialState ==
    [document |-> <<>>, currentIndex |-> 0, isLoading |-> FALSE, loadError |-> <<>>,
     search |-> initialSearchState, editor |-> initialEditorState]

RECURSIVE MapFind(_, _, _)
MapFind(m, index, k) ==
    IF k > Len(m) THEN 0
    ELSE IF m[k].index = index THEN k
    ELSE MapFind(m, index, k + 1)

MapHas(m, index) == MapFind(m, index, 1) # 0
MapGet(m, index) == m[MapFind(m, index, 1)].data
MapSet(m, index, data) ==
    IF MapHas(m, index)
    THEN [m EXCEPT ![MapFind(m, index, 1)] = [index |-> index, data |-> data]]
    ELSE Append(m, [index |-> index, data |-> data])
MapDelete(m, index) == SelectSeq(m, LAMBDA e : e.index # index)

\* The first set() of loadFile, before the file is read.
loadFileStart(st) == [st EXCEPT !.isLoading = TRUE, !.loadError = <<>>]

FirstMessage(errors, fallback) == IF errors # <<>> THEN errors[1].message ELSE fallback

\* The set() calls of loadFile on the result of parseFile; loadFileResolved is
\* the rest of loadFile once file.text() has resolved with content.
\* A variant of the set() calls of loadFile whose failure branch also drops the
\* modifications (sensitivity of C11).
loadFileSet_clearsOnFailure(st, result) ==
    IF result.success /\ result.document # <<>>
    THEN [st EXCEPT !.document = result.document,
                    !.currentIndex = 0,
                    !.isLoading = FALSE,
                    !.search = initialSearchState,
                    !.editor = initialEditorState]
    ELSE [st EXCEPT !.loadError = <<FirstMessage(result.errors, "Failed to parse file")>>,
                    !.isLoading = FALSE,
                    !.editor = initialEditorState]

loadFileSet(st, result) ==
    IF result.success /\ result.document # <<>>
    THEN [st EXCEPT !.document = result.document,
                    !.currentIndex = 0,
                    !.isLoading = FALSE,
                    !.search = initialSearchState,
                    !.editor = initialEditorState]
    ELSE [st EXCEPT !.loadError = <<FirstMessage(result.errors, "Failed to parse file")>>,
                    !.isLoading = FALSE]

loadFileResolved(st, content, fileName, id) ==
    loadFileSet(st, parseFile(content, fileName, LoadOptions, id))

\* The catch branch of loadFile: file.text() rejected.
loadFileRejected(st) ==
    [st EXCEPT !.loadError = <<"Failed to read file">>, !.isLoading = FALSE]

\* A variant of the success branch that keeps the editor state (sensitivity
\* of C4).
loadContentSet_keepsEditor(st, result) ==
    IF result.success /\ result.document # <<>>
    THEN [st EXCEPT !.document = result.document,
                    !.currentIndex = 0,
                    !.search = initialSearchState]
    ELSE [st EXCEPT !.loadError = <<FirstMessage(result.errors, "Failed to parse content")>>]

\* The set() calls of loadContent on the result of parseFile.
loadContentSet(st, result) ==
    IF result.success /\ result.document # <<>>
    THEN [st EXCEPT !.document = result.document,
                    !.currentIndex = 0,
                    !.search = initialSearchState,
                    !.editor = initialEditorState]
    ELSE [st EXCEPT !.loadError = <<FirstMessage(result.errors, "Failed to parse content")>>]

loadContent(st, content, fileName, id) ==
    loadContentSet(st, parseFile(content, fileName, LoadOptions, id))

Max(a, b) == IF a > b THEN a ELSE b
Min(a, b) == IF a < b THEN a ELSE b

\* A variant of setCurrentIndex without the clamp (sensitivity of C3).
setCurrentIndex_unclamped(st, index) ==
    IF st.document = <<>> THEN st ELSE [st EXCEPT !.currentIndex = index]

setCurrentIndex(st, index) ==
    IF st.document = <<>> THEN st
    ELSE [st EXCEPT !.currentIndex = Max(0, Min(index, st.document[1].totalRecords - 1))]

navigateNext(st) ==
    IF st.document = <<>> \/ st.currentIndex >= st.document[1].totalRecords - 1 THEN st
    ELSE [st EXCEPT !.currentIndex = st.currentIndex + 1]

navigatePrev(st) ==
    IF st.currentIndex <= 0 THEN st
    ELSE [st EXCEPT !.currentIndex = st.currentIndex - 1]

\* JSON.stringify(record.data).toLowerCase().includes(term); the search terms
\* are single characters, found as the text of a token.
Includes(data, term) ==
    LET text == Stringify(data, FALSE, 0) IN
    \E k \in 1..Len(text) : ToLower(text[k].s) = ToLower(term)

setGlobalSearch(st, term) ==
    [st EXCEPT !.search.globalTerm = term,
               !.search.currentMatch = 0,
               !.search.totalMatches =
                   IF term # "" /\ st.document # <<>>
                   THEN Cardinality({k \in 1..Len(st.document[1].records) :
                                       Includes(st.document[1].records[k].data, term)})
                   ELSE 0]

setInDocSearch(st, term) ==
    [st EXCEPT !.search.inDocTerm = term, !.search.currentMatch = 0]

nextMatch(st) ==
    IF st.search.totalMatches > 0
    THEN [st EXCEPT !.search.currentMatch = (st.search.currentMatch + 1) % st.search.totalMatches]
    ELSE st

prevMatch(st) ==
    IF st.search.totalMatches > 0
    THEN [st EXCEPT !.search.currentMatch =
                       IF st.search.currentMatch = 0 THEN st.search.totalMatches - 1
                       ELSE st.search.currentMatch - 1]
    ELSE st

clearSearch(st) == [st EXCEPT !.search = initialSearchState]

setEditMode(st, enabled) == [st EXCEPT !.editor.isEditing = enabled]

updateRecord(st, index, data) ==
    [st EXCEPT !.editor.modifiedRecords = MapSet(st.editor.modifiedRecords, index, data),
               !.editor.hasChanges = TRUE]

\* A variant of setRecordModification that edits the record in place
\* (sensitivity of C6).
setRecordModification_writesRecord(st, index, data) ==
    IF st.document # <<>> /\ index < Len(st.document[1].records) /\ data.t # "null"
    THEN [st EXCEPT !.document[1].records[index + 1].data = data,
                    !.editor.hasChanges = TRUE]
    ELSE st

\* data of type null stands for the argument null.
setRecordModification(st, index, data) ==
    LET m == IF data.t = "null"
             THEN MapDelete(st.editor.modifiedRecords, index)
             ELSE MapSet(st.editor.modifiedRecords, index, data)
    IN  [st EXCEPT !.editor.modifiedRecords = m, !.editor.hasChanges = Len(m) > 0]

\* A variant of discardChanges that forgets the flag (sensitivity of C2).
discardChanges_keepsFlag(st) == [st EXCEPT !.editor.modifiedRecords = <<>>]

discardChanges(st) ==
    [st EXCEPT !.editor.modifiedRecords = <<>>, !.editor.hasChanges = FALSE]

\* <<>> when there is no current record.
getCurrentRecord(st) ==
    IF st.document = <<>> \/ st.currentIndex < 0
       \/ st.currentIndex >= Len(st.document[1].records)
    THEN <<>>
    ELSE <<st.document[1].records[st.currentIndex + 1]>>

\* A variant of reset that keeps the search state (sensitivity of C19).
reset_keepsSearch(st) ==
    [st EXCEPT !.document = <<>>,
               !.currentIndex = 0,
               !.isLoading = FALSE,
               !.loadError = <<>>,
               !.editor = initialEditorState]

reset(st) ==
    [st EXCEPT !.document = <<>>,
               !.currentIndex = 0,
               !.isLoading = FALSE,
               !.loadError = <<>>,
               !.search = initialSearchState,
               !.editor = initialEditorState]

----------------------------------------------------------------------------
(* The compare store (useCompareStore).  A CompareSource is a record of its *)
(* type and the fields of that type; leftSource, rightSource,               *)
(* externalDocument and externalFileName are <<>> when null.                *)

RecordSource(index) ==
    [type |-> "record", index |-> index, columnName |-> "", document |-> <<>>]
ColumnSource(columnName) ==
    [type |-> "column", index |-> 0, columnName |-> columnName, document |-> <<>>]
FileSource(document, recordIndex) ==
    [type |-> "file", index |-> recordIndex, columnName |-> "", document |-> <<document>>]

initialCompare ==
    [isComparing |-> FALSE, leftSource |-> <<>>, rightSource |-> <<>>,
     externalDocument |-> <<>>, externalFileName |-> <<>>]

startCompare(c) == [c EXCEPT !.isComparing = TRUE]

stopCompare(c) == [c EXCEPT !.isComparing = FALSE]

setLeftSource(c, source) == [c EXCEPT !.leftSource = <<source>>]

setRightSource(c, source) == [c EXCEPT !.rightSource = <<source>>]

\* A variant of loadExternalSet that leaves rightSource alone (sensitivity of
\* C20).
loadExternalSet_keepsRight(c, result, fileName) ==
    IF result.success /\ result.document # <<>>
    THEN [c EXCEPT !.externalDocument = result.document,
                   !.externalFileName = <<fileName>>]
    ELSE c

\* loadExternalFile once file.text() has resolved; result is what parseFile
\* gave.
loadExternalSet(c, result, fileName) ==
    IF result.success /\ result.document # <<>>
    THEN [c EXCEPT !.externalDocument = result.document,
                   !.externalFileName = <<fileName>>,
                   !.rightSource = <<FileSource(result.document[1], 0)>>]
    ELSE c

clearExternalFile(c) ==
    [c EXCEPT !.externalDocument = <<>>,
              !.externalFileName = <<>>,
              !.rightSource = IF c.rightSource # <<>> /\ c.rightSource[1].type = "file"
                              THEN <<>> ELSE @]

\* A variant of swapSides that loses the left source (sensitivity of C18).
swapSides_losesLeft(c) == [c EXCEPT !.leftSource = c.rightSource]

swapSides(c) == [c EXCEPT !.leftSource = c.rightSource, !.rightSource = c.leftSource]

resetCompare(c) ==
    [c EXCEPT !.isComparing = FALSE, !.leftSource = <<>>, !.rightSource = <<>>,
              !.externalDocument = <<>>, !.externalFileName = <<>>]

SelectSource == <<Tok("lit", "// Select a source to compare")>>

\* document.records.map(r => r.data[columnName]) as JSON.stringify sees it: a
\* value that is undefined is written as null.
ColumnData(records, columnName) ==
    ArrV([k \in 1..Len(records) |->
            IF HasKey(records[k].data, columnName)
            THEN GetKey(records[k].data, columnName) ELSE NullV])

RecordContent(records, index) ==
    IF index + 1 \in 1..Len(records)
    THEN Stringify(records[index + 1].data, TRUE, 0) ELSE <<>>

\* CompareView.getSourceContent(source), document being the document store's
\* document.
getSourceContent(document, source) ==
    IF source = <<>> THEN SelectSource
    ELSE IF source[1].type = "record"
    THEN IF document = <<>> THEN <<>> ELSE RecordContent(document[1].records, source[1].index)
    ELSE IF source[1].type = "column"
    THEN IF document = <<>> THEN <<>>
         ELSE Stringify(ColumnData(document[1].records, source[1].columnName), TRUE, 0)
    ELSE RecordContent(source[1].document[1].records, source[1].index)

----------------------------------------------------------------------------
(* Files, and the bookkeeping of loads.  A load's number stands for the id  *)
(* generateId() gives its document.  pending.reads are the loadFile calls   *)
(* whose file.text() has not settled; ok and overlaps record history: the   *)
(* loadFile calls that succeeded, and the pairs <<a, b>> where b was        *)
(* started while a was still being read.                                    *)

Member(k, v) == <<LBRACE, Tok("str", k), COLON, Tok("num", v), RBRACE>>

FileA == [name |-> <<"a", "jsonl">>, content |-> Member("a", "1") \o <<NL>> \o Member("a", "2")]
FileB == [name |-> <<"b", "json">>, content |-> Member("b", "1")]
FileC == [name |-> <<"c", "csv">>,
          content |-> <<Tok("cell", "a"), COMMA, Tok("cell", "b"), NL,
                        Tok("cell", "1"), COMMA, Tok("cell", "2")>>]
FileBad == [name |-> <<"bad", "json">>, content |-> <<LBRACE>>]

Files == {FileA, FileB, FileC, FileBad}

pendingInit == [reads |-> {}, nextId |-> 1, ok |-> {}, overlaps |-> {}]

\* The read in flight with the given id; a read of no file when there is none.
NoRead == [id |-> 0, file |-> [name |-> <<>>, content |-> <<>>]]
Read(id) ==
    IF \E r \in pending.reads : r.id = id
    THEN CHOOSE r \in pending.reads : r.id = id
    ELSE NoRead

Op(op, n, k) == [op |-> op, n |-> n, k |-> k]

viewInit ==
    [viewMode |-> "code", mounted |-> FALSE, editorReady |-> FALSE,
     originalContent |-> <<>>, storedOriginal |-> <<>>,
     showWarningModal |-> FALSE, expandedCell |-> <<>>, output |-> <<>>]

MapSize(st) == Len(st.editor.modifiedRecords)

Edited == ObjV(<<"a">>, <<NumV("9")>>)

----------------------------------------------------------------------------
(* SpecStore: the store driven through its operations by any caller, with   *)
(* any argument.                                                            *)

Others == <<view, jsonRun, jsonlRun, csvRun, schemaRun, compare>>

LoadFileStart(f) ==
    /\ pending.nextId <= MaxLoads
    /\ store' = loadFileStart(store)
    /\ pending' = [pending EXCEPT !.reads = @ \cup {[id |-> pending.nextId, file |-> f]},
                                  !.nextId = @ + 1]
    /\ lastOp' = Op("loadFileStart", 0, pending.nextId)
    /\ UNCHANGED Others

LoadFileResolve(r) ==
    /\ r \in pending.reads
    /\ store' = loadFileResolved(store, r.file.content, r.file.name, r.id)
    /\ pending' = [pending EXCEPT !.reads = @ \ {r}]
    /\ lastOp' = Op("loadFileResolved", MapSize(store), r.id)
    /\ UNCHANGED Others

LoadFileReject(r) ==
    /\ r \in pending.reads
    /\ store' = loadFileRejected(store)
    /\ pending' = [pending EXCEPT !.reads = @ \ {r}]
    /\ lastOp' = Op("loadFileRejected", 0, r.id)
    /\ UNCHANGED Others

LoadContent(f) ==
    /\ pending.nextId <= MaxLoads
    /\ store' = loadContent(store, f.content, f.name, pending.nextId)
    /\ pending' = [pending EXCEPT !.nextId = @ + 1]
    /\ lastOp' = Op("loadContent", MapSize(store), pending.nextId)
    /\ UNCHANGED Others

StoreStep(op, n, k, st) ==
    /\ store' = st
    /\ lastOp' = Op(op, n, k)
    /\ UNCHANGED <<pending, view, jsonRun, jsonlRun, csvRun, schemaRun, compare>>

\* lastOp records the operation, and for the operations that clear the
\* modification map the number of entries it had.
SetCurrentIndex(i) == StoreStep("setCurrentIndex", 0, i, setCurrentIndex(store, i))
NavigateNext == StoreStep("navigateNext", 0, 0, navigateNext(store))
NavigatePrev == StoreStep("navigatePrev", 0, 0, navigatePrev(store))
SetGlobalSearch(term) == StoreStep("setGlobalSearch", 0, 0, setGlobalSearch(store, term))
SetInDocSearch(term) == StoreStep("setInDocSearch", 0, 0, setInDocSearch(store, term))
NextMatch == StoreStep("nextMatch", 0, 0, nextMatch(store))
PrevMatch == StoreStep("prevMatch", 0, 0, prevMatch(store))
ClearSearch == StoreStep("clearSearch", 0, 0, clearSearch(store))
SetEditMode(enabled) == StoreStep("setEditMode", 0, 0, setEditMode(store, enabled))
UpdateRecord(i, data) == StoreStep("updateRecord", 0, 0, updateRecord(store, i, data))
SetRecordModification(i, data) ==
    StoreStep("setRecordModification", 0, 0, setRecordModification(store, i, data))
DiscardChanges == StoreStep("discardChanges", MapSize(store), 0, discardChanges(store))
Reset == StoreStep("reset", MapSize(store), 0, reset(store))

SearchTerms == {"", "a"}

StoreFiles == {FileA, FileBad}

\* Arguments of setCurrentIndex (negative, valid, too large) and the record
\* indices callers modify.
IndexArgs == {0 - 1, 0, 2}
ModIndices == {0, 1}

StoreNext ==
    \/ \E f \in StoreFiles : LoadFileStart(f)
    \/ \E id \in 1..MaxLoads : LoadFileResolve(Read(id))
    \/ \E id \in 1..MaxLoads : LoadFileReject(Read(id))
    \/ \E f \in StoreFiles : LoadContent(f)
    \/ \E i \in IndexArgs : SetCurrentIndex(i)
    \/ NavigateNext
    \/ NavigatePrev
    \/ \E term \in SearchTerms : SetGlobalSearch(term)
    \/ \E term \in SearchTerms : SetInDocSearch(term)
    \/ NextMatch
    \/ PrevMatch
    \/ ClearSearch
    \/ \E enabled \in BOOLEAN : SetEditMode(enabled)
    \/ \E i \in ModIndices : UpdateRecord(i, Edited)
    \/ \E i \in ModIndices, data \in {Edited, NullV} : SetRecordModification(i, data)
    \/ DiscardChanges
    \/ Reset

StoreInit ==
    /\ store = initialState
    /\ pending = pendingInit
    /\ view = viewInit
    /\ lastOp = Op("init", 0, 0)
    /\ compare = initialCompare
    /\ jsonRun = JsonIdle
    /\ jsonlRun = JsonlIdle
    /\ csvRun = CsvIdle
    /\ schemaRun = SchemaIdle

SpecStore == StoreInit /\ [][StoreNext]_vars

----------------------------------------------------------------------------
(* The application: the store driven by the handlers of the components.     *)
(* view holds the state of the components: the view mode (settings store),  *)
(* CodeView (mounted, the Monaco editor created, its originalContent state, *)
(* the original text its change listener compares with), the Header's       *)
(* warning modal and the TableView's expanded cell.  The compare view is    *)
(* not opened in this specification.                                        *)

CurrentData(st) == st.document[1].records[st.currentIndex + 1].data

\* CodeView.getOriginalContent / getRecordContent for the current record.
getOriginalContent(st) == Stringify(CurrentData(st), TRUE, 0)

getRecordContent(st) ==
    IF MapHas(st.editor.modifiedRecords, st.currentIndex)
    THEN Stringify(MapGet(st.editor.modifiedRecords, st.currentIndex), TRUE, 0)
    ELSE Stringify(CurrentData(st), TRUE, 0)

\* The listener handleEditorMount registers with onDidChangeModelContent, run
\* when the editor's text becomes content.  storedOriginal is the original text
\* the listener's closure holds.
\* parsed is what JSON.parse gives for the changed text (the try block).
\* A variant of saveParsed that marks the editor changed when the text does
\* not parse (sensitivity of C24).
saveParsed_marksChanged(st, parsed) ==
    IF parsed.ok THEN setRecordModification(st, st.currentIndex, parsed.val)
    ELSE [st EXCEPT !.editor.hasChanges = TRUE]

saveParsed(st, parsed) ==
    IF parsed.ok THEN setRecordModification(st, st.currentIndex, parsed.val) ELSE st

onDidChangeModelContent(st, content, storedOriginal) ==
    IF ~st.editor.isEditing THEN st
    ELSE IF content # storedOriginal THEN saveParsed(st, JSONparse(content))
    ELSE setRecordModification(st, st.currentIndex, NullV)

\* setEditorState({ hasChanges })
setEditorState(st, hasChanges) == [st EXCEPT !.editor.hasChanges = hasChanges]

\* CodeView's first effect ("set original content when record changes").
syncHasChanges(st, hasModifications) ==
    IF st.editor.hasChanges # hasModifications
    THEN setEditorState(st, hasModifications) ELSE st

\* editorRef.current.setValue(content) on the store as synced.
setValue(synced, content, vw) ==
    IF vw.editorReady THEN onDidChangeModelContent(synced, content, vw.storedOriginal)
    ELSE synced

RecordEffect(st, vw) ==
    [store |-> setValue(syncHasChanges(st, MapHas(st.editor.modifiedRecords, st.currentIndex)),
                        getRecordContent(st), vw),
     view |-> [vw EXCEPT !.originalContent = getOriginalContent(st)]]

\* CodeView's second effect ("reset editor when exiting edit mode"); rendered
\* is the store the component rendered with, st the store the effect finds.
EditModeEffect(st, vw, rendered) ==
    IF ~rendered.editor.isEditing /\ vw.editorReady /\ rendered.editor.hasChanges
    THEN setEditorState(onDidChangeModelContent(st, vw.originalContent, vw.storedOriginal), FALSE)
    ELSE st

Unmounted(vw) ==
    [vw EXCEPT !.mounted = FALSE, !.editorReady = FALSE,
               !.originalContent = <<>>, !.storedOriginal = <<>>]

SameRecord(old, new) ==
    /\ old.document # <<>>
    /\ old.document[1].id = new.document[1].id
    /\ old.currentIndex = new.currentIndex

\* What React does after a handler left the store as st and the view as vw:
\* CodeView is mounted, updated or unmounted and its effects run, then App's
\* effect switches a newly loaded CSV/TSV document to the table view.
Shown(st, vw) == st.document # <<>> /\ vw.viewMode = "code"

RenderRecordEffect(old, st, vw) ==
    IF ~Shown(st, vw) THEN [store |-> st, view |-> Unmounted(vw)]
    ELSE IF ~vw.mounted THEN RecordEffect(st, [vw EXCEPT !.mounted = TRUE])
    ELSE IF ~SameRecord(old, st) THEN RecordEffect(st, vw)
    ELSE [store |-> st, view |-> vw]

RenderEditModeEffect(old, st, vw, recordEffect) ==
    IF Shown(st, vw) /\ vw.mounted /\ old.editor.isEditing # st.editor.isEditing
    THEN [store |-> EditModeEffect(recordEffect.store, vw, st),
          view |-> recordEffect.view]
    ELSE recordEffect

Loaded(old, st) ==
    /\ st.document # <<>>
    /\ (old.document = <<>> \/ old.document[1].id # st.document[1].id)

\* App's effect on document.id / document.format.
FormatEffect(old, st, afterEffects) ==
    IF Loaded(old, st) /\ st.document[1].format \in {"csv", "tsv"}
    THEN [store |-> afterEffects.store,
          view |-> [Unmounted(afterEffects.view) EXCEPT !.viewMode = "table"]]
    ELSE afterEffects

Render(old, st, vw) ==
    FormatEffect(old, st,
                 RenderEditModeEffect(old, st, vw, RenderRecordEffect(old, st, vw)))

\* A variant of getRecordData that ignores the modification map (sensitivity
\* of C16).
getRecordData_original(st, index) == st.document[1].records[index + 1].data

\* Header.getRecordData(index)
getRecordData(st, index) ==
    IF MapHas(st.editor.modifiedRecords, index)
    THEN MapGet(st.editor.modifiedRecords, index)
    ELSE st.document[1].records[index + 1].data

Falsy(v) ==
    \/ v.t = "null"
    \/ v.t = "number" /\ v.s \in {"0", "NaN"}
    \/ v.t = "string" /\ v.s = ""
    \/ v.t = "boolean" /\ v.s = "false"

\* The fallback CSV writer of buildExportContent (window.Papa is not set by
\* the application): JSON.stringify(row[h] ?? '') per header key.
CsvCell(row, h) ==
    IF ~HasKey(row, h) \/ GetKey(row, h).t = "null" THEN Tok("qcell", "")
    ELSE IF GetKey(row, h).t = "string" THEN Tok("qcell", GetKey(row, h).s)
    ELSE Tok("cell", TextString(Stringify(GetKey(row, h), FALSE, 0)))

RECURSIVE JoinCells(_)
JoinCells(cells) ==
    IF cells = <<>> THEN <<>>
    ELSE IF Len(cells) = 1 THEN <<cells[1]>>
    ELSE <<cells[1], COMMA>> \o JoinCells(Tail(cells))

\* Header.buildExportContent(exportType): <<>> for null, else <<[content, ext]>>.
buildExportContent(st, exportType) ==
    IF st.document = <<>> THEN <<>>
    ELSE LET document == st.document[1]
             n == Len(document.records)
         IN
         IF exportType = "current"
         THEN IF Falsy(getRecordData(st, st.currentIndex)) THEN <<>>
              ELSE <<[content |-> Stringify(getRecordData(st, st.currentIndex), TRUE, 0),
                      ext |-> "json"]>>
         ELSE IF document.format \in {"csv", "tsv"}
         THEN LET headers == getRecordData(st, 0).keys
                  line(row) == JoinCells([j \in 1..Len(headers) |-> CsvCell(row, headers[j])])
              IN  <<[content |-> JoinLines(
                                   <<JoinCells([j \in 1..Len(headers) |-> Tok("cell", headers[j])])>>
                                   \o [k \in 1..n |-> line(getRecordData(st, k - 1))]),
                     ext |-> document.format]>>
         ELSE IF document.format = "jsonl"
         THEN <<[content |-> JoinLines([k \in 1..n |->
                                          Stringify(getRecordData(st, k - 1), FALSE, 0)]),
                 ext |-> "jsonl"]>>
         ELSE <<[content |-> Stringify(getRecordData(st, 0), TRUE, 0), ext |-> "json"]>>

Runs == <<jsonRun, jsonlRun, csvRun, schemaRun>>

\* A handler left the store as st and the view as vw; React renders.
Rendered(op, n, k, rendered) ==
    /\ store' = rendered.store
    /\ view' = rendered.view
    /\ lastOp' = Op(op, n, k)
    /\ UNCHANGED <<Runs, compare>>

Handled(op, n, k, st, vw) == Rendered(op, n, k, Render(store, st, vw))

UiFiles == {FileA, FileB, FileC, FileBad}

\* No modal is open: the Header's warning modal and the TableView's expanded
\* cell are overlays, and pointer input goes to them while they are open.
NoOverlay == ~view.showWarningModal /\ view.expandedCell = <<>>

\* DropZone.handleDrop / handleFileSelect: loadFile(files[0]) up to its await.
\* The drop zone is shown while there is no document, loading or not.
DropFile(f) ==
    /\ store.document = <<>>
    /\ pending.nextId <= MaxLoads
    /\ pending' = [pending EXCEPT
                     !.reads = @ \cup {[id |-> pending.nextId, file |-> f]},
                     !.nextId = @ + 1,
                     !.overlaps = @ \cup {<<r.id, pending.nextId>> : r \in pending.reads}]
    /\ Handled("loadFileStart", 0, pending.nextId, loadFileStart(store), view)

\* file.text() resolves: the rest of loadFile.
Resolved(r, result) ==
    /\ pending' = [pending EXCEPT
                     !.reads = @ \ {r},
                     !.ok = IF result.success THEN @ \cup {r.id} ELSE @]
    /\ Handled("loadFileResolved", MapSize(store), r.id, loadFileSet(store, result), view)

ReadResolves(r) ==
    /\ r \in pending.reads
    /\ Resolved(r, parseFile(r.file.content, r.file.name, LoadOptions, r.id))

\* file.text() rejects: the catch branch of loadFile.
ReadRejects(r) ==
    /\ r \in pending.reads
    /\ pending' = [pending EXCEPT !.reads = @ \ {r}]
    /\ Handled("loadFileRejected", 0, r.id, loadFileRejected(store), view)

\* Header "New" button: onClick={reset}.
HeaderNew ==
    /\ store.document # <<>>
    /\ NoOverlay
    /\ Handled("reset", MapSize(store), 0, reset(store), view)
    /\ UNCHANGED pending

\* Header.handleEditModeToggle(!isEditing)
handleEditModeToggle ==
    /\ store.document # <<>>
    /\ NoOverlay
    /\ IF store.editor.isEditing /\ store.editor.hasChanges
       THEN Handled("editToggle", 0, 0, store, [view EXCEPT !.showWarningModal = TRUE])
       ELSE Handled("editToggle", 0, 0, setEditMode(store, ~store.editor.isEditing), view)
    /\ UNCHANGED pending

\* Header.handleDiscardChanges (the warning modal's "discard").
handleDiscardChanges ==
    /\ view.showWarningModal
    /\ Handled("discardChanges", MapSize(store), 0,
               setEditMode(discardChanges(store), FALSE),
               [view EXCEPT !.showWarningModal = FALSE])
    /\ UNCHANGED pending

\* Header.handleCancelDiscard
handleCancelDiscard ==
    /\ view.showWarningModal
    /\ Handled("cancelDiscard", 0, 0, store, [view EXCEPT !.showWarningModal = FALSE])
    /\ UNCHANGED pending

\* Header.saveAndLoadCurrent / saveAndLoadAll; the export file is named
\* <exportFilename>.<ext> with ext json for the current record and the
\* document's format for all records.
loadExport(exportType, result) ==
    /\ result # <<>>
    /\ pending' = [pending EXCEPT !.nextId = @ + 1]
    /\ Handled("loadContent", MapSize(store), pending.nextId,
               loadContent(store, result[1].content,
                           <<"export", IF exportType = "current" THEN "json"
                                       ELSE store.document[1].format>>,
                           pending.nextId),
               view)

saveAndLoad(exportType) ==
    /\ store.document # <<>>
    /\ NoOverlay
    /\ pending.nextId <= MaxLoads
    /\ loadExport(exportType, buildExportContent(store, exportType))

\* App.handleKeyDown ArrowRight / ArrowLeft and the Toolbar's arrows.
ArrowRight ==
    /\ view.viewMode = "code"
    /\ Handled("navigateNext", 0, 0, navigateNext(store), view)
    /\ UNCHANGED pending

ArrowLeft ==
    /\ view.viewMode = "code"
    /\ Handled("navigatePrev", 0, 0, navigatePrev(store), view)
    /\ UNCHANGED pending

\* RecordList: onClick={() => setCurrentIndex(virtualRow.index)}
RecordListClick(i) ==
    /\ store.document # <<>>
    /\ NoOverlay
    /\ i \in 0..(store.document[1].totalRecords - 1)
    /\ Handled("setCurrentIndex", 0, i, setCurrentIndex(store, i), view)
    /\ UNCHANGED pending

\* Toolbar view buttons: setViewMode(mode).
setViewMode(mode) ==
    /\ store.document # <<>>
    /\ NoOverlay
    /\ view.viewMode # mode
    /\ Handled("setViewMode", 0, 0, store,
               [view EXCEPT !.viewMode = mode, !.expandedCell = <<>>])
    /\ UNCHANGED pending

\* A click on a grid cell: TableView.onRowClicked and onCellClicked.
RowData(st, rowIndex) == getRecordData(st, rowIndex)

TableCellClick(rowIndex, j) ==
    /\ store.document # <<>>
    /\ view.viewMode = "table"
    /\ NoOverlay
    /\ rowIndex \in 0..(store.document[1].totalRecords - 1)
    /\ RowData(store, rowIndex).t = "object"
    /\ j \in 1..Len(RowData(store, rowIndex).keys)
    /\ Handled("cellClick", 0, rowIndex, setCurrentIndex(store, rowIndex),
               IF RowData(store, rowIndex).items[j].t = "null" THEN view
               ELSE [view EXCEPT !.expandedCell =
                        <<[rowIndex |-> rowIndex,
                           field |-> RowData(store, rowIndex).keys[j],
                           isEditing |-> store.editor.isEditing]>>])
    /\ UNCHANGED pending

\* TableView.handleSave with the edit value parsed to newValue.
handleSave(newValue) ==
    /\ store.document # <<>>
    /\ view.expandedCell # <<>>
    /\ view.expandedCell[1].isEditing
    /\ LET cell == view.expandedCell[1]
           currentData ==
               IF MapHas(store.editor.modifiedRecords, cell.rowIndex)
               THEN MapGet(store.editor.modifiedRecords, cell.rowIndex)
               ELSE IF cell.rowIndex < Len(store.document[1].records)
               THEN store.document[1].records[cell.rowIndex + 1].data
               ELSE ObjV(<<>>, <<>>)
           put == ObjPut(currentData.keys, currentData.items, cell.field, newValue)
       IN  Handled("handleSave", 0, cell.rowIndex,
                   setRecordModification(store, cell.rowIndex, ObjV(put.keys, put.items)),
                   [view EXCEPT !.expandedCell = <<>>])
    /\ UNCHANGED pending

\* TableView.closeExpandedCell
closeExpandedCell ==
    /\ view.expandedCell # <<>>
    /\ Handled("closeCell", 0, 0, store, [view EXCEPT !.expandedCell = <<>>])
    /\ UNCHANGED pending

\* CodeView.handleEditorMount: the Monaco editor has been created.  setValue
\* runs before the change listener is registered.
handleEditorMount ==
    /\ view.mounted
    /\ ~view.editorReady
    /\ Handled("editorMount", 0, 0, store,
               [view EXCEPT !.editorReady = TRUE, !.storedOriginal = view.originalContent])
    /\ UNCHANGED pending

\* The user changes the editor's text to content (edit mode only: the editor
\* is read-only otherwise).  lastOp records the number of entries the map had
\* and whether the text is valid JSON (1) or not (0).
EditorType(content) ==
    /\ view.mounted
    /\ view.editorReady
    /\ NoOverlay
    /\ store.editor.isEditing
    /\ Handled("type", MapSize(store), IF JSONparse(content).ok THEN 1 ELSE 0,
               onDidChangeModelContent(store, content, view.storedOriginal), view)
    /\ UNCHANGED pending

EditTexts == {Stringify(Edited, TRUE, 0), <<LBRACE>>}

Next ==
    \/ \E f \in UiFiles : DropFile(f)
    \/ \E id \in 1..MaxLoads : ReadResolves(Read(id))
    \/ \E id \in 1..MaxLoads : ReadRejects(Read(id))
    \/ HeaderNew
    \/ handleEditModeToggle
    \/ handleDiscardChanges
    \/ handleCancelDiscard
    \/ \E exportType \in {"current", "all"} : saveAndLoad(exportType)
    \/ ArrowRight
    \/ ArrowLeft
    \/ \E i \in IndexArgs : RecordListClick(i)
    \/ \E mode \in {"code", "table"} : setViewMode(mode)
    \/ \E i \in ModIndices, j \in 1..2 : TableCellClick(i, j)
    \/ handleSave(NumV("9"))
    \/ closeExpandedCell
    \/ handleEditorMount
    \/ \E content \in EditTexts \cup {view.storedOriginal} : EditorType(content)

Init == StoreInit

Spec == Init /\ [][Next]_vars

----------------------------------------------------------------------------
(* Specifications of the parser runs and of the schema explorer run         *)

StoreIdle ==
    /\ store = initialState
    /\ pending = pendingInit
    /\ view = viewInit
    /\ lastOp = Op("init", 0, 0)
    /\ compare = initialCompare

InitJson ==
    JsonInit /\ StoreIdle /\ jsonlRun = JsonlIdle /\ csvRun = CsvIdle /\ schemaRun = SchemaIdle

InitJsonl ==
    JsonlInit /\ StoreIdle /\ jsonRun = JsonIdle /\ csvRun = CsvIdle /\ schemaRun = SchemaIdle

\* loadFile on a file of the CSV run's name and content: the first set(), then
\* the rest once file.text() has resolved.
CsvLoadFile ==
    /\ csvRun.pc = "parsed"
    /\ csvRun' = [csvRun EXCEPT !.pc = "loaded"]
    /\ store' = loadFileResolved(loadFileStart(store), csvRun.content, csvRun.fileName, 1)
    /\ UNCHANGED <<pending, view, lastOp, jsonRun, jsonlRun, schemaRun, compare>>

CsvNext == CsvParse \/ CsvLoadFile

InitCsv ==
    CsvInit /\ StoreIdle /\ jsonRun = JsonIdle /\ jsonlRun = JsonlIdle /\ schemaRun = SchemaIdle

InitColumns ==
    ColumnsInit /\ StoreIdle /\ jsonRun = JsonIdle /\ jsonlRun = JsonlIdle /\ schemaRun = SchemaIdle

InitSchema ==
    SchemaInit /\ StoreIdle /\ jsonRun = JsonIdle /\ jsonlRun = JsonlIdle /\ csvRun = CsvIdle

SpecJson == InitJson /\ [][JsonNext]_vars
SpecJsonl == InitJsonl /\ [][JsonlNext]_vars
SpecCsv == InitCsv /\ [][CsvNext]_vars
SpecSchema == InitSchema /\ [][SchemaNext]_vars
SpecColumns == InitColumns /\ [][ColumnsNext]_vars

InitSelect ==
    SelectInit /\ StoreIdle /\ jsonlRun = JsonlIdle /\ csvRun = CsvIdle /\ schemaRun = SchemaIdle

SpecSelect == InitSelect /\ [][SelectNext]_vars

----------------------------------------------------------------------------
(* The Header's exports and Copy, on every short JSON / JSONL content and   *)
(* one CSV file.  view.output is what the last handler handed to the        *)
(* browser: <<>> for nothing, else a download or a clipboard write.         *)

MaxExportLen == 3

ExportAlphabet ==
    {NL, Tok("num", "0"), Tok("num", "1"), Tok("lit", "null"), Tok("lit", "false"),
     Tok("str", "")}

ExportFiles ==
    {[name |-> n, content |-> c] :
        n \in {<<"data", "jsonl">>, <<"data", "json">>},
        c \in Texts(ExportAlphabet, MaxExportLen)} \cup {FileC}

ExportEdits == {NumV("0"), Edited}

Output(kind, content) == <<[kind |-> kind, content |-> content]>>

\* A handler of the Header ran on the store st and emitted output.
Emitted(op, st, output) ==
    /\ store' = st
    /\ view' = [view EXCEPT !.output = output]
    /\ lastOp' = Op(op, 0, 0)
    /\ UNCHANGED <<pending, jsonRun, jsonlRun, csvRun, schemaRun, compare>>

ExportLoad(f) ==
    /\ lastOp.op = "init"
    /\ Emitted("loadContent", loadContent(store, f.content, f.name, 1), <<>>)

\* The current record is saved from the editor as data.
ExportModify(data) ==
    /\ store.document # <<>>
    /\ Emitted("setRecordModification",
               setRecordModification(store, store.currentIndex, data), <<>>)

ExportSelect(i) ==
    /\ store.document # <<>>
    /\ Emitted("setCurrentIndex", setCurrentIndex(store, i), <<>>)

Download(exportData) ==
    IF exportData = <<>> THEN <<>> ELSE Output("download", exportData[1].content)

exportCurrent ==
    /\ lastOp.op # "init"
    /\ Emitted("exportCurrent", store, Download(buildExportContent(store, "current")))

exportAll ==
    /\ lastOp.op # "init"
    /\ Emitted("exportAll", store, Download(buildExportContent(store, "all")))

\* navigator.clipboard.writeText(JSON.stringify(data, null, 2)) when the
\* document and the data are truthy.
Copied(st) ==
    IF st.document = <<>> THEN <<>>
    ELSE IF Falsy(getRecordData(st, st.currentIndex)) THEN <<>>
    ELSE Output("clipboard", Stringify(getRecordData(st, st.currentIndex), TRUE, 0))

handleCopy ==
    /\ lastOp.op # "init"
    /\ Emitted("handleCopy", store, Copied(store))

ExportNext ==
    \/ \E f \in ExportFiles : ExportLoad(f)
    \/ \E data \in ExportEdits : ExportModify(data)
    \/ \E i \in ModIndices : ExportSelect(i)
    \/ exportCurrent
    \/ exportAll
    \/ handleCopy

SpecExport == StoreInit /\ [][ExportNext]_vars

----------------------------------------------------------------------------
(* The compare store next to a document store that holds a document or      *)
(* none.  loadExternalFile is two steps: the call, and the settling of      *)
(* file.text().                                                             *)

CompareStep(op, k, c) ==
    /\ compare' = c
    /\ lastOp' = Op(op, 0, k)
    /\ UNCHANGED <<store, pending, view, Runs>>

\* A main document is loaded from the drop zone, which App shows while the
\* document store holds no document; the compare store is not touched.
CompareMain(f) ==
    /\ store.document = <<>>
    /\ store' = loadContent(store, f.content, f.name, 0)
    /\ lastOp' = Op("loadContent", 0, 0)
    /\ UNCHANGED <<pending, view, Runs, compare>>

\* Header "New" button: onClick={reset} of the document store; the button is
\* rendered in compare mode too, and the compare store is not touched.
CompareNew ==
    /\ store.document # <<>>
    /\ store' = reset(store)
    /\ lastOp' = Op("documentReset", 0, 0)
    /\ UNCHANGED <<pending, view, Runs, compare>>

StartCompare == CompareStep("startCompare", 0, startCompare(compare))
StopCompare == CompareStep("stopCompare", 0, stopCompare(compare))
SetLeftSource(source) == CompareStep("setLeftSource", 0, setLeftSource(compare, source))
SetRightSource(source) == CompareStep("setRightSource", 0, setRightSource(compare, source))
ClearExternalFile == CompareStep("clearExternalFile", 0, clearExternalFile(compare))
SwapSides == CompareStep("swapSides", 0, swapSides(compare))
ResetCompare == CompareStep("reset", 0, resetCompare(compare))

LoadExternalFile(f) ==
    /\ pending.nextId <= MaxLoads
    /\ pending' = [pending EXCEPT !.reads = @ \cup {[id |-> pending.nextId, file |-> f]},
                                  !.nextId = @ + 1]
    /\ lastOp' = Op("loadExternalFile", 0, pending.nextId)
    /\ UNCHANGED <<store, view, Runs, compare>>

ExternalSettled(op, r, c) ==
    /\ r \in pending.reads
    /\ compare' = c
    /\ pending' = [pending EXCEPT !.reads = @ \ {r}]
    /\ lastOp' = Op(op, 0, r.id)
    /\ UNCHANGED <<store, view, Runs>>

ExternalResolves(r) ==
    ExternalSettled("externalResolved", r,
                    loadExternalSet(compare,
                                    parseFile(r.file.content, r.file.name, LoadOptions, r.id),
                                    r.file.name))

\* file.text() rejected: the catch block logs and sets nothing.
ExternalRejects(r) == ExternalSettled("externalRejected", r, compare)

\* CompareView's effect (the view is rendered while isComparing): with no left
\* source and a document, the left source becomes the current record.
AutoSetLeft ==
    /\ compare.isComparing
    /\ compare.leftSource = <<>>
    /\ store.document # <<>>
    /\ CompareStep("autoSetLeft", 0, setLeftSource(compare, RecordSource(store.currentIndex)))

\* Toolbar's Compare / Exit Compare button; the toolbar renders nothing
\* without a document.
handleToggleCompare ==
    /\ store.document # <<>>
    /\ CompareStep("toggleCompare", 0,
                   IF compare.isComparing
                   THEN stopCompare(compare)
                   ELSE startCompare(setLeftSource(compare,
                                                   RecordSource(store.currentIndex))))

\* Header's own isComparing, and what it renders from it: the edit-mode
\* toggle is disabled, and Export and Copy are not rendered.
isComparing(c) == c.leftSource # <<>>
EditToggleDisabled(c) == isComparing(c)
ExportAndCopyHidden(c) == isComparing(c)

MainFiles == {FileA, FileB}
ExternalFiles == {FileA, FileBad}

\* The sources the views pass: a record the main document has at the moment
\* of the selection, a column, a record of the external document.
MainRecords ==
    IF store.document = <<>> THEN {}
    ELSE {RecordSource(i) : i \in 0..(store.document[1].totalRecords - 1)}
LeftSources == MainRecords \cup {ColumnSource("a")}
RightSources ==
    (MainRecords \cap {RecordSource(0)}) \cup
    (IF compare.externalDocument = <<>> THEN {}
     ELSE {FileSource(compare.externalDocument[1], 1)})

CompareNext ==
    \/ \E f \in MainFiles : CompareMain(f)
    \/ CompareNew
    \/ StartCompare
    \/ StopCompare
    \/ \E source \in LeftSources : SetLeftSource(source)
    \/ \E source \in RightSources : SetRightSource(source)
    \/ \E f \in ExternalFiles : LoadExternalFile(f)
    \/ \E id \in 1..MaxLoads : ExternalResolves(Read(id))
    \/ \E id \in 1..MaxLoads : ExternalRejects(Read(id))
    \/ ClearExternalFile
    \/ SwapSides
    \/ ResetCompare
    \/ AutoSetLeft
    \/ handleToggleCompare

SpecCompare == StoreInit /\ [][CompareNext]_vars

----------------------------------------------------------------------------
(* Claims                                                                   *)

Entries == store.editor.modifiedRecords

\* C1: in every reachable state of the application, a non-empty modification
\* map implies editor.hasChanges.  (Spec; CodeView's record effect sets
\* hasChanges to "the current record is modified", so this is violated.)
C1_MapImpliesHasChanges == Len(Entries) > 0 => store.editor.hasChanges

\* C2: discardChanges leaves the modification map empty and hasChanges false,
\* however many records were modified, and leaves document, currentIndex and
\* isEditing as they were.  (SpecStore)
C2_DiscardClears ==
    /\ discardChanges(store).editor.modifiedRecords = <<>>
    /\ ~discardChanges(store).editor.hasChanges
    /\ discardChanges(store).document = store.document
    /\ discardChanges(store).currentIndex = store.currentIndex
    /\ discardChanges(store).editor.isEditing = store.editor.isEditing
    /\ lastOp.op = "discardChanges" => Entries = <<>> /\ ~store.editor.hasChanges

\* discardChanges has run on a map of two modified records.
C2_Witness ==
    /\ lastOp.op = "discardChanges"
    /\ lastOp.n = 2
    /\ store.document # <<>>
    /\ Entries = <<>>

InRange(st) ==
    st.document # <<>> =>
        0 <= st.currentIndex /\ st.currentIndex <= st.document[1].totalRecords - 1

\* C3: while a document is loaded 0 <= currentIndex <= totalRecords - 1, after
\* any operation and after setCurrentIndex(i) for any i; navigateNext at the
\* last record and navigatePrev at record 0 change nothing.  (SpecStore)
C3_IndexInRange ==
    /\ InRange(store)
    /\ \A i \in IndexArgs : InRange(setCurrentIndex(store, i))
    /\ InRange(navigateNext(store)) /\ InRange(navigatePrev(store))
    /\ (store.document # <<>> /\ store.currentIndex = store.document[1].totalRecords - 1)
           => navigateNext(store) = store
    /\ store.currentIndex = 0 => navigatePrev(store) = store

\* setCurrentIndex(2) has run on a document of two records and left the index
\* at the last record.
C3_Witness ==
    /\ lastOp.op = "setCurrentIndex"
    /\ lastOp.k = 2
    /\ store.document # <<>>
    /\ store.document[1].totalRecords = 2
    /\ store.currentIndex = 1

Replaced(st, result) ==
    (result.success /\ result.document # <<>>) =>
        /\ st.document = result.document
        /\ st.currentIndex = 0
        /\ st.editor = initialEditorState
        /\ st.search = initialSearchState

\* C4: a successful load (loadFile or loadContent) installs the parsed
\* document and, in the same update, sets currentIndex to 0, empties the
\* modification map, clears hasChanges and isEditing and resets the search
\* state.  (SpecStore)
C4_LoadResets ==
    /\ pending.nextId <= MaxLoads =>
          \A f \in StoreFiles :
             LET result == parseFile(f.content, f.name, LoadOptions, pending.nextId) IN
             /\ Replaced(loadContent(store, f.content, f.name, pending.nextId), result)
             /\ Replaced(loadFileResolved(store, f.content, f.name, pending.nextId), result)
    /\ (/\ lastOp.op \in {"loadContent", "loadFileResolved"}
        /\ store.document # <<>>
        /\ store.document[1].id = lastOp.k)
           => /\ store.currentIndex = 0
              /\ store.editor = initialEditorState
              /\ store.search = initialSearchState

\* The second load succeeded on a store whose map had an entry.
C4_Witness ==
    /\ lastOp.op \in {"loadContent", "loadFileResolved"}
    /\ lastOp.n >= 1
    /\ lastOp.k = 2
    /\ store.document # <<>>
    /\ store.document[1].id = 2
    /\ Entries = <<>>

\* C5: when loadFile(A) and then loadFile(B) are started, B while A is being
\* read, and both have completed successfully, the store holds B's document.
\* (Spec; each load installs its document when its own read resolves, so the
\* read that finishes last wins.)
C5_LastStartedWins ==
    (/\ lastOp.op = "loadFileResolved"
     /\ pending.reads = {}
     /\ \E a, b \in pending.ok :
           /\ <<a, b>> \in pending.overlaps
           /\ pending.nextId = b + 1
           /\ lastOp.k \in {a, b})
        => store.document # <<>> /\ store.document[1].id = pending.nextId - 1

\* C6: setRecordModification, updateRecord, discardChanges, setEditMode, the
\* navigation operations and the search operations leave document.records
\* (the whole document) as it was.  (SpecStore)
C6_RecordsImmutable ==
    /\ \A i \in ModIndices, data \in {Edited, NullV} :
          /\ setRecordModification(store, i, data).document = store.document
          /\ updateRecord(store, i, data).document = store.document
    /\ discardChanges(store).document = store.document
    /\ \A enabled \in BOOLEAN : setEditMode(store, enabled).document = store.document
    /\ \A i \in IndexArgs : setCurrentIndex(store, i).document = store.document
    /\ navigateNext(store).document = store.document
    /\ navigatePrev(store).document = store.document
    /\ \A term \in SearchTerms :
          /\ setGlobalSearch(store, term).document = store.document
          /\ setInDocSearch(store, term).document = store.document
    /\ nextMatch(store).document = store.document
    /\ prevMatch(store).document = store.document
    /\ clearSearch(store).document = store.document

\* A modification of record 1 is in the map and record 1 holds its parsed data.
C6_Witness ==
    /\ lastOp.op = "setRecordModification"
    /\ store.document # <<>>
    /\ MapHas(Entries, 1)
    /\ Len(store.document[1].records) = 2
    /\ store.document[1].records[2].data = ObjV(<<"a">>, <<NumV("2")>>)
    /\ MapGet(Entries, 1) = Edited

\* The lines of the JSONL text, and those that are not blank, trimmed.
AllLines == Split(jsonlRun.content)
NonBlank ==
    SelectSeq([k \in 1..Len(AllLines) |-> Trim(AllLines[k])], LAMBDA l : l # <<>>)

LineParses(l) ==
    JSONparse(l).ok \/ (jsonlRun.options.lenient # "false" /\ lenientJsonParse(l).ok)

\* C7: for a JSONL text with N >= 1 non-blank lines JsonlParser.parse returns a
\* document of exactly N records in line order, record k with index k and the
\* trimmed k-th non-blank line as raw text, totalRecords = N; a record's error
\* list is empty exactly when its line parses.  (SpecJsonl)
C7_OneRecordPerLine ==
    (jsonlRun.pc = "parsed" /\ Len(NonBlank) >= 1) =>
        /\ jsonlRun.result.document # <<>>
        /\ LET d == jsonlRun.result.document[1] IN
           /\ Len(d.records) = Len(NonBlank)
           /\ d.totalRecords = Len(NonBlank)
           /\ \A k \in 1..Len(NonBlank) :
                 /\ d.records[k].index = k - 1
                 /\ d.records[k].raw = NonBlank[k]
                 /\ LineParses(NonBlank[k]) <=> d.records[k].errors = <<>>

\* Two non-blank lines around a blank one, the second of which does not parse.
C7_Witness ==
    /\ jsonlRun.pc = "parsed"
    /\ Len(AllLines) >= 3
    /\ Len(NonBlank) = 2
    /\ jsonlRun.result.document # <<>>
    /\ jsonlRun.result.document[1].records[1].errors = <<>>
    /\ jsonlRun.result.document[1].records[2].errors # <<>>

\* The fields a value contains, as paths of keys: through objects and through
\* the objects that are elements of arrays, to any depth.
RECURSIVE FieldsOfObject(_, _)
RECURSIVE FieldsOfItems(_, _)
FieldsOfItems(items, path) ==
    UNION {IF items[i].t = "object" THEN FieldsOfObject(items[i], path) ELSE {} :
             i \in 1..Len(items)}
FieldsOfObject(obj, path) ==
    UNION {{Append(path, obj.keys[j])}
           \cup (IF obj.items[j].t = "object"
                 THEN FieldsOfObject(obj.items[j], Append(path, obj.keys[j]))
                 ELSE IF obj.items[j].t = "array"
                 THEN FieldsOfItems(obj.items[j].items, Append(path, obj.keys[j]))
                 ELSE {}) : j \in 1..Len(obj.keys)}
Fields(v) ==
    IF v.t = "object" THEN FieldsOfObject(v, <<>>)
    ELSE IF v.t = "array" THEN FieldsOfItems(v.items, <<>>)
    ELSE {}

AllFields == UNION {Fields(schemaRun.records[k]) : k \in 1..Len(schemaRun.records)}

ExactCount(path) ==
    Cardinality({k \in 1..Len(schemaRun.records) : path \in Fields(schemaRun.records[k])})

\* What the explorer shows for a field; a field it has no node for is shown
\* in no record.
Reported(path) ==
    IF \E r \in schemaRun.rendered : r.path = path
    THEN CHOOSE r \in schemaRun.rendered : r.path = path
    ELSE [path |-> path, count |-> 0, total |-> Len(schemaRun.records),
          inconsistent |-> FALSE, badge |-> "none"]

CountsExact ==
    \A path \in AllFields :
       /\ Reported(path).count = ExactCount(path)
       /\ Reported(path).inconsistent <=> ExactCount(path) < Len(schemaRun.records)

\* C8 as stated: for every field of the records the explorer's count is the
\* exact number of records containing the field, and the field is flagged
\* inconsistent exactly when that count is below the record count.
\* (SpecSchema; violated by a field beyond the traversal bounds.)
C8_CountsExact == schemaRun.pc = "rendered" => CountsExact

\* A value all of whose fields lie within the traversal: at most
\* DepthLimit + 1 keys deep, in the first ArraySample elements of an array
\* field, in the first RootSample elements of a root array.
RECURSIVE ObjectWithin(_, _)
ValueWithin(value, depth) ==
    CASE value.t = "object" ->
           value.keys # <<>> => depth < DepthLimit /\ ObjectWithin(value, depth + 1)
      [] value.t = "array" ->
           /\ Len(value.items) <= ArraySample
           /\ \A i \in 1..Len(value.items) :
                 (value.items[i].t = "object" /\ value.items[i].keys # <<>>)
                    => depth < DepthLimit /\ ObjectWithin(value.items[i], depth + 1)
      [] OTHER -> TRUE
ObjectWithin(obj, depth) == \A j \in 1..Len(obj.items) : ValueWithin(obj.items[j], depth)

WithinBounds(v) ==
    CASE v.t = "object" -> ObjectWithin(v, 0)
      [] v.t = "array" ->
           /\ Len(v.items) <= RootSample
           /\ \A i \in 1..Len(v.items) : v.items[i].t = "object" => ObjectWithin(v.items[i], 0)
      [] OTHER -> TRUE

ExampleRecords ==
    <<ObjV(<<"a">>, <<One>>), ObjV(<<"a", "b">>, <<NumV("2"), NumV("3")>>)>>

\* C8 amended: the count of every node is at most the number of records
\* containing the field, a node is flagged inconsistent exactly when its count
\* is below the record count (and the document has more than one record), and
\* the counts are exact when every record lies within the traversal bounds;
\* for {a:1}, {a:2,b:3} a is shown 2/2 consistent and b 1/2 inconsistent.
C8_CountsExactWithinBounds ==
    schemaRun.pc = "rendered" =>
        /\ \A r \in schemaRun.rendered :
              /\ 1 <= r.count /\ r.count <= ExactCount(r.path)
              /\ r.inconsistent <=> r.count < r.total
        /\ (\A k \in 1..Len(schemaRun.records) : WithinBounds(schemaRun.records[k]))
              => CountsExact
        /\ schemaRun.records = ExampleRecords =>
              schemaRun.rendered =
                 {[path |-> <<"a">>, count |-> 2, total |-> 2,
                   inconsistent |-> FALSE, badge |-> "consistent"],
                  [path |-> <<"b">>, count |-> 1, total |-> 2,
                   inconsistent |-> TRUE, badge |-> "inconsistent"]}

\* Within the bounds, a field nested in an array of a root array's sibling
\* record is shown in one record of two.
C8_Witness ==
    /\ schemaRun.pc = "rendered"
    /\ Len(schemaRun.records) = 2
    /\ \A k \in 1..2 : WithinBounds(schemaRun.records[k])
    /\ schemaRun.records[1].t = "array"
    /\ \E r \in schemaRun.rendered : Len(r.path) = 2 /\ r.count = 1 /\ r.inconsistent

\* C9: for a valid JSON text JsonParser.parse succeeds with one record (index
\* 0, isMultiRecord false, totalRecords 1), and parsing what
\* JsonParser.serialize gives for the document yields the same value.
\* (SpecJson; violated by a number beyond the double range, which parses to
\* Infinity and is serialized as null.)
C9_RoundTrip ==
    (jsonRun.pc = "done" /\ JSONparse(jsonRun.content).ok) =>
        /\ jsonRun.result.success
        /\ Len(jsonRun.result.document[1].records) = 1
        /\ jsonRun.result.document[1].records[1].index = 0
        /\ ~jsonRun.result.document[1].isMultiRecord
        /\ jsonRun.result.document[1].totalRecords = 1
        /\ jsonRun.reparsed.success
        /\ jsonRun.reparsed.document[1].records[1].data
              = jsonRun.result.document[1].records[1].data

Distinct(f) == \A i, j \in 1..Len(f) : f[i] = f[j] => i = j
Range(f) == {f[i] : i \in 1..Len(f)}

\* C10: for a CSV/TSV text with a header row (of distinct names) the number
\* of inferred columns equals the number of header fields and every record's
\* key set is the set of header fields.  (SpecCsv; violated when a data row
\* has fewer or more fields than the header.)
C10_ColumnsMatchHeader ==
    (csvRun.pc = "parsed" /\ csvRun.result.document # <<>> /\ Distinct(csvRun.fields)) =>
        LET d == csvRun.result.document[1] IN
        /\ Len(d.meta.columns) = Len(csvRun.fields)
        /\ \A k \in 1..Len(d.records) :
              Range(d.records[k].data.keys) = Range(csvRun.fields)

\* The step completes the loadFile attempt id with a failure: its read
\* rejected, or its content did not parse to a document.
FailedCompletion(id) ==
    /\ Read(id) \in pending.reads
    /\ lastOp'.k = id
    /\ \/ lastOp'.op = "loadFileRejected"
       \/ /\ lastOp'.op = "loadFileResolved"
          /\ LET result == parseFile(Read(id).file.content, Read(id).file.name, LoadOptions, id)
             IN  ~(result.success /\ result.document # <<>>)

Held(st) == <<st.document, st.currentIndex, st.editor.modifiedRecords>>

\* C11: a loadFile attempt whose read or parse fails ends with loadError
\* non-null and isLoading false, starts no other read, and neither its first
\* step nor its completion changes the document, the current index or the
\* modification map.
C11_FailedLoadTerminal ==
    [][/\ lastOp'.op = "loadFileStart" => Held(store') = Held(store)
       /\ \A id \in 1..MaxLoads :
             FailedCompletion(id) =>
                /\ store'.loadError # <<>>
                /\ ~store'.isLoading
                /\ Held(store') = Held(store)
                /\ pending'.reads = pending.reads \ {Read(id)}
                /\ pending'.nextId = pending.nextId]_vars

\* A parse failure completed while a document with a modification was held.
C11_Witness ==
    /\ lastOp.op = "loadFileResolved"
    /\ store.loadError # <<>>
    /\ store.document # <<>>
    /\ store.editor.modifiedRecords # <<>>

Unparseable(content, options) ==
    /\ ~JSONparse(content).ok
    /\ options.lenient = "true" => ~lenientJsonParse(content).ok

\* The indices of the characters of the content before position p, and of
\* the newlines among them.
CharsBefore(content, p) == {k \in 1..Len(Chars(content)) : k <= p}
NewlinesBefore(content, p) == {k \in CharsBefore(content, p) : Chars(content)[k] = NL}
SinceNewline(content, p) ==
    {k \in CharsBefore(content, p) : \A n \in NewlinesBefore(content, p) : n < k}

\* C12: for content that parses neither strictly nor (when lenient) leniently,
\* JsonParser.parse returns success false, no document and exactly one entry,
\* of severity error; when the message carries a position p the entry's line
\* is 1 + the number of newlines before p and its column 1 + the number of
\* characters since the last newline before p.
C12_UnparseableJson ==
    (jsonRun.pc = "parsed" /\ Unparseable(jsonRun.content, jsonRun.options)) =>
        /\ ~jsonRun.result.success
        /\ jsonRun.result.document = <<>>
        /\ Len(jsonRun.result.errors) = 1
        /\ jsonRun.result.errors[1].severity = "error"
        /\ jsonRun.position # <<>> =>
              /\ jsonRun.result.errors[1].line
                    = 1 + Cardinality(NewlinesBefore(jsonRun.content, jsonRun.position[1]))
              /\ jsonRun.result.errors[1].column
                    = 1 + Cardinality(SinceNewline(jsonRun.content, jsonRun.position[1]))

\* A lenient parse failed at a position beyond the end of the content (the
\* rewritten text is longer than the content).
C12_Witness ==
    /\ jsonRun.pc = "parsed"
    /\ Unparseable(jsonRun.content, jsonRun.options)
    /\ jsonRun.options.lenient = "true"
    /\ jsonRun.position # <<>>
    /\ jsonRun.position[1] > Len(Chars(jsonRun.content))
    /\ jsonRun.result.errors[1].line = 1
    /\ jsonRun.result.errors[1].column = Len(Chars(jsonRun.content)) + 1

\* The errors Papa.parse reported in the CSV run, and the entries
\* CsvParser.parse made of them (its own "No data found" entry comes last).
TokenizerErrors == PapaParseFile(csvRun.content, csvRun.fileName).errors
DataRows == PapaParseFile(csvRun.content, csvRun.fileName).data

Classified ==
    /\ Len(csvRun.result.errors) >= Len(TokenizerErrors)
    /\ \A k \in 1..Len(TokenizerErrors) :
          csvRun.result.errors[k].severity
             = (IF TokenizerErrors[k].type = "FieldMismatch" THEN "warning" ELSE "error")

\* C13: every error of the CSV tokenizer is classified warning when it is a
\* field mismatch and error otherwise, and a CSV/TSV file with at least one
\* data row is loaded into the store by loadFile whatever errors the tokenizer
\* reported.  (SpecCsv; violated by a file whose delimiter cannot be detected:
\* the error is of class error, parse reports success false, and loadFile
\* installs no document.)
C13_CsvErrorsDoNotBlock ==
    csvRun.pc = "loaded" =>
        /\ Classified
        /\ Len(DataRows) >= 1 =>
              /\ store.document # <<>>
              /\ store.document[1].fileName = csvRun.fileName
              /\ store.loadError = <<>>


----------------------------------------------------------------------------
(* C14                                                                      *)

\* The rewrite the claim describes: every non-standard literal after a colon
\* becomes the quoted string of its own text.
RECURSIVE Quoted(_, _)
Quoted(t, i) ==
    IF i > Len(t) THEN <<>>
    ELSE LET j == SkipWs(t, i + 1) IN
         IF t[i] = COLON /\ j <= Len(t) /\ t[j].k = "lit" /\ t[j].s \in NonStandard
         THEN <<COLON, SP, Tok("str", t[j].s)>> \o Quoted(t, j + 1)
         ELSE <<t[i]>> \o Quoted(t, i + 1)

\* C14: a content JSON.parse accepts is parsed as it is, without the lenient
\* pre-pass; a content JSON.parse rejects is, under lenient parsing, parsed
\* as the text in which NaN, Infinity, -Infinity and undefined after a colon
\* are each replaced by the quoted string of the same name.
C14_LenientRewritesToStrings ==
    jsonRun.pc = "parsed" =>
        LET strict == JSONparse(jsonRun.content)
            claimed == JSONparse(Quoted(jsonRun.content, 1))
        IN  /\ strict.ok =>
                 /\ jsonRun.result.success
                 /\ jsonRun.result.errors = <<>>
                 /\ jsonRun.result.document[1].records[1].data = strict.val
            /\ (~strict.ok /\ jsonRun.options.lenient = "true" /\ claimed.ok) =>
                 /\ jsonRun.result.success
                 /\ jsonRun.result.document[1].records[1].data = claimed.val

\* The part of C14 the code meets: the same statement with undefined left out
\* of the literals the content holds.
C14_WithoutUndefined ==
    (\A i \in 1..Len(jsonRun.content) : jsonRun.content[i] # Tok("lit", "undefined"))
        => C14_LenientRewritesToStrings

----------------------------------------------------------------------------
(* C15                                                                      *)

\* The types of the values the claim counts: those of the first
\* min(rowCount, 100) rows that are not null, undefined or ''.
SampleTypes(data) ==
    {GetKey(data[i], "a").t :
        i \in {k \in 1..Len(data) :
                 /\ k <= SampleSize
                 /\ HasKey(data[k], "a")
                 /\ GetKey(data[k], "a") \notin {NullV, StrV("")}}}

----------------------------------------------------------------------------
(* C16, C17                                                                 *)

\* The effective value of record index (0-based): the modification-map entry
\* for the index if there is one, else the record's parsed value.
Effective(index) ==
    IF \E k \in 1..Len(Entries) : Entries[k].index = index
    THEN (CHOOSE e \in {Entries[k] : k \in 1..Len(Entries)} : e.index = index).data
    ELSE store.document[1].records[index + 1].data

\* C16: exporting the full document emits, for a JSONL document with N
\* records, exactly N lines, line k the compact JSON of record k's effective
\* value; for a JSON document the pretty-printed effective value of record 0;
\* for a CSV document the header line of record 0's effective value and one
\* line per record, in record order, of that record's effective value.
C16_FullExportUsesEffectiveValues ==
    (lastOp.op = "exportAll" /\ store.document # <<>>) =>
        LET document == store.document[1]
            N == Len(document.records)
        IN  /\ view.output # <<>>
            /\ view.output[1].kind = "download"
            /\ document.format = "jsonl" =>
                  /\ Len(Split(view.output[1].content)) = N
                  /\ \A k \in 1..N :
                        Split(view.output[1].content)[k] = Stringify(Effective(k - 1), FALSE, 0)
            /\ document.format = "json" =>
                  view.output[1].content = Stringify(Effective(0), TRUE, 0)
            /\ document.format = "csv" =>
                  /\ Len(Split(view.output[1].content)) = N + 1
                  /\ \A k \in 1..N :
                        Split(view.output[1].content)[k + 1] =
                            JoinCells([j \in 1..Len(Effective(0).keys) |->
                                         CsvCell(Effective(k - 1), Effective(0).keys[j])])

\* A JSONL document of two records, the second modified, has been exported.
C16_Witness ==
    /\ lastOp.op = "exportAll"
    /\ store.document # <<>>
    /\ store.document[1].format = "jsonl"
    /\ Len(store.document[1].records) = 2
    /\ Effective(1) # store.document[1].records[2].data
    /\ Effective(0) = store.document[1].records[1].data
    /\ view.output # <<>>

\* C17: for every record of a loaded document, whatever its value, Copy and
\* the current-record export emit the pretty-printed JSON text of the current
\* record's effective value.
C17_CopyAndExportCurrent ==
    (lastOp.op \in {"handleCopy", "exportCurrent"} /\ store.document # <<>>) =>
        /\ view.output # <<>>
        /\ view.output[1].kind = (IF lastOp.op = "handleCopy" THEN "clipboard" ELSE "download")
        /\ view.output[1].content = Stringify(Effective(store.currentIndex), TRUE, 0)

\* The part of C17 the code meets: the same statement for the records whose
\* effective value is none of null, false, 0 and ''.
C17_ExceptFalsy ==
    (store.document # <<>> /\ ~Falsy(Effective(store.currentIndex)))
        => C17_CopyAndExportCurrent

----------------------------------------------------------------------------
(* C19                                                                      *)

\* C19: after reset, from whatever state it was called in, the document
\* store is in its initial state: no document, currentIndex 0, not loading,
\* no load error, the initial search state, an empty modification map, and
\* hasChanges and isEditing false.
C19_ResetRestoresInitialState ==
    lastOp.op = "reset" =>
        /\ store = initialState
        /\ store.document = <<>>
        /\ store.currentIndex = 0
        /\ ~store.isLoading
        /\ store.loadError = <<>>
        /\ store.search = initialSearchState
        /\ store.editor.modifiedRecords = <<>>
        /\ ~store.editor.hasChanges
        /\ ~store.editor.isEditing

\* reset was called with entries in the modification map and a read in flight.
C19_Witness ==
    /\ lastOp.op = "reset"
    /\ lastOp.n > 0
    /\ pending.reads # {}

----------------------------------------------------------------------------
(* C18, C20                                                                 *)

LeftContent(document, c) == getSourceContent(document, c.leftSource)
RightContent(document, c) == getSourceContent(document, c.rightSource)

\* C18: swapSides exchanges leftSource and rightSource and changes nothing
\* else; applying it once more restores the pair; and the JSON string
\* resolved for each side after the swap is the string resolved for the other
\* side before it.
C18_SwapSidesExchanges ==
    [][lastOp'.op = "swapSides" =>
          /\ compare'.leftSource = compare.rightSource
          /\ compare'.rightSource = compare.leftSource
          /\ compare'.isComparing = compare.isComparing
          /\ compare'.externalDocument = compare.externalDocument
          /\ compare'.externalFileName = compare.externalFileName
          /\ store' = store
          /\ swapSides(compare') = compare
          /\ LeftContent(store'.document, compare') = RightContent(store.document, compare)
          /\ RightContent(store'.document, compare') = LeftContent(store.document, compare)]_vars

\* After a swap the left side is a record of the external file and the right
\* side a record of the main document, and the two resolve to different
\* strings.
C18_Witness ==
    /\ lastOp.op = "swapSides"
    /\ store.document # <<>>
    /\ compare.leftSource # <<>>
    /\ compare.leftSource[1].type = "file"
    /\ compare.rightSource # <<>>
    /\ compare.rightSource[1].type = "record"
    /\ LeftContent(store.document, compare) # RightContent(store.document, compare)
    /\ LeftContent(store.document, compare) # <<>>
    /\ RightContent(store.document, compare) # <<>>

\* The read with the given id settles in this step, as op.
Settles(op, id) ==
    /\ lastOp'.op = op
    /\ lastOp'.k = id
    /\ Read(id) \in pending.reads

NoRetry(id) ==
    /\ pending'.reads = pending.reads \ {Read(id)}
    /\ pending'.nextId = pending.nextId

\* C20: when the read of an external file resolves and the content parses,
\* externalDocument and externalFileName are set and rightSource becomes the
\* file source at record 0 of that document, leftSource and isComparing
\* staying as they were; when the read fails or the content does not parse,
\* the compare store is left as it was; either way the attempt is over and
\* no new read is started.
C20_LoadExternalFile ==
    [][\A id \in 1..MaxLoads :
          /\ Settles("externalResolved", id) =>
                LET file == Read(id).file
                    result == parseFile(file.content, file.name, LoadOptions, id)
                IN  /\ NoRetry(id)
                    /\ compare'.leftSource = compare.leftSource
                    /\ compare'.isComparing = compare.isComparing
                    /\ (result.success /\ result.document # <<>>) =>
                          /\ compare'.externalDocument = result.document
                          /\ compare'.externalFileName = <<file.name>>
                          /\ compare'.rightSource = <<FileSource(result.document[1], 0)>>
                    /\ ~(result.success /\ result.document # <<>>) => compare' = compare
          /\ Settles("externalRejected", id) => (NoRetry(id) /\ compare' = compare)]_vars

\* An external file has been loaded while comparing, with a left source set.
C20_Witness ==
    /\ lastOp.op = "externalResolved"
    /\ compare.isComparing
    /\ compare.leftSource # <<>>
    /\ compare.externalDocument # <<>>
    /\ compare.externalFileName = <<FileA.name>>
    /\ compare.rightSource = <<FileSource(compare.externalDocument[1], 0)>>
    /\ compare.externalDocument[1].id = 2

----------------------------------------------------------------------------
(* C21                                                                      *)

\* The name ends in a dot followed by one of the extensions, in any case.
NameEndsIn(fileName, exts) ==
    Len(fileName) >= 2 /\ ToLower(fileName[Len(fileName)]) \in exts

Unsupported(result) ==
    /\ ~result.success
    /\ result.document = <<>>
    /\ Len(result.errors) = 1
    /\ result.errors[1].message = "Unsupported file format"
    /\ result.errors[1].severity = "error"

\* What C21 says parseFile does for the run's name and content.
SelectedAsClaimed ==
    LET name == jsonRun.fileName
        content == jsonRun.content
        json == JsonParserParse(content, name, LoadOptions, 1)
    IN  /\ NameEndsIn(name, {"json"}) =>
              (jsonRun.parser = "JsonParser" /\ jsonRun.result = json)
        /\ NameEndsIn(name, {"jsonl", "ndjson"}) =>
              /\ jsonRun.parser = "JsonlParser"
              /\ jsonRun.result = JsonlParserParse(content, name, LoadOptions, 1)
        /\ NameEndsIn(name, {"csv", "tsv"}) =>
              /\ jsonRun.parser = "CsvParser"
              /\ jsonRun.result = CsvParserParse(content, name, LoadOptions, 1)
        /\ ~NameEndsIn(name, {"json", "jsonl", "ndjson", "csv", "tsv"}) =>
              IF StartsWithBrace(Trim(content))
              THEN jsonRun.parser = "JsonParser" /\ jsonRun.result = json
              ELSE jsonRun.parser = "none" /\ Unsupported(jsonRun.result)

\* C21: a name ending in .json, .jsonl/.ndjson, .csv or .tsv selects the
\* JSON, JSONL or CSV parser whatever the content; any other name (another
\* extension, or none) is parsed as JSON exactly when its trimmed content
\* starts with '{' or '[', and otherwise parseFile fails with the one error
\* 'Unsupported file format' and no document.
C21_ExtensionPrecedence == jsonRun.pc = "selected" => SelectedAsClaimed

\* The part of C21 the code meets: the same statement for the names that
\* have a dot.
C21_DottedNames ==
    (jsonRun.pc = "selected" /\ Len(jsonRun.fileName) >= 2) => SelectedAsClaimed

----------------------------------------------------------------------------
(* C22                                                                      *)

\* The 1-based physical numbers of the lines of the JSONL text that are not
\* blank and do not parse, in increasing order.
RECURSIVE FailedLines(_)
FailedLines(i) ==
    IF i > Len(AllLines) THEN <<>>
    ELSE (IF Trim(AllLines[i]) # <<>> /\ ~LineParses(Trim(AllLines[i])) THEN <<i>> ELSE <<>>)
         \o FailedLines(i + 1)

NoValidObjects(result) ==
    /\ ~result.success
    /\ result.document = <<>>
    /\ result.errors # <<>>
    /\ result.errors[Len(result.errors)].message = "No valid JSON objects found in file"

\* The result's errors are one 'error' entry per failed line.
OnePerFailedLine(result) ==
    /\ Len(result.errors) = Len(FailedLines(1))
    /\ \A k \in 1..Len(result.errors) : result.errors[k].severity = "error"

\* C22: JsonlParser.parse fails, with no document and the error 'No valid
\* JSON objects found', exactly when the text has no non-blank line; with at
\* least one non-blank line it succeeds with a document however many lines
\* failed to parse, and its error list has one 'error' entry per failed line,
\* carrying that line's 1-based physical line number.
C22_JsonlSuccessAndLineNumbers ==
    jsonlRun.pc = "parsed" =>
        /\ NoValidObjects(jsonlRun.result) <=> Len(NonBlank) = 0
        /\ Len(NonBlank) >= 1 =>
              /\ jsonlRun.result.success
              /\ jsonlRun.result.document # <<>>
              /\ OnePerFailedLine(jsonlRun.result)
              /\ \A k \in 1..Len(jsonlRun.result.errors) :
                    jsonlRun.result.errors[k].line = FailedLines(1)[k]

\* The part of C22 the code meets: the same statement with the line numbers
\* counted from the first non-blank line of the text.
C22_LinesOfTrimmedText ==
    jsonlRun.pc = "parsed" =>
        /\ NoValidObjects(jsonlRun.result) <=> Len(NonBlank) = 0
        /\ Len(NonBlank) >= 1 =>
              /\ jsonlRun.result.success
              /\ jsonlRun.result.document # <<>>
              /\ OnePerFailedLine(jsonlRun.result)
              /\ \E shift \in 0..Len(AllLines) :
                    /\ \A i \in 1..shift : Trim(AllLines[i]) = <<>>
                    /\ shift < Len(AllLines) /\ Trim(AllLines[shift + 1]) # <<>>
                    /\ \A k \in 1..Len(jsonlRun.result.errors) :
                          jsonlRun.result.errors[k].line = FailedLines(1)[k] - shift

----------------------------------------------------------------------------
(* C23                                                                      *)

\* The fields of a value that lie within the bounds the claim names: level
\* is the number of levels below the top-level fields, at most 3; of an
\* array-valued field the first 3 elements; of a root array the first 10.
RECURSIVE InspectedOfObject(_, _, _)
RECURSIVE InspectedOfItems(_, _, _, _)
InspectedOfItems(items, path, level, sample) ==
    UNION {IF items[i].t = "object" THEN InspectedOfObject(items[i], path, level) ELSE {} :
             i \in {k \in 1..Len(items) : k <= sample}}
InspectedOfObject(obj, path, level) ==
    IF level > 3 THEN {}
    ELSE UNION {{Append(path, obj.keys[j])}
                \cup (IF obj.items[j].t = "object"
                      THEN InspectedOfObject(obj.items[j], Append(path, obj.keys[j]), level + 1)
                      ELSE IF obj.items[j].t = "array"
                      THEN InspectedOfItems(obj.items[j].items, Append(path, obj.keys[j]),
                                            level + 1, 3)
                      ELSE {}) : j \in 1..Len(obj.keys)}
Inspected(v) ==
    IF v.t = "object" THEN InspectedOfObject(v, <<>>, 0)
    ELSE IF v.t = "array" THEN InspectedOfItems(v.items, <<>>, 0, 10)
    ELSE {}

\* C23: the schema has a node exactly for the fields that lie within the
\* bounds in some record (three levels of nesting below the top-level fields,
\* the first 3 elements of an array-valued field, the first 10 elements of a
\* root array), a node counts exactly the records that hold its field within
\* the bounds, and a record whose root value is no object and no array
\* contributes no field.
C23_BoundedTraversal ==
    schemaRun.pc \in {"computed", "rendered"} =>
        /\ {n.path : n \in schemaRun.nodes} =
              UNION {Inspected(schemaRun.records[k]) : k \in 1..Len(schemaRun.records)}
        /\ \A n \in schemaRun.nodes :
              n.recordsWithKey =
                 {k - 1 : k \in {i \in 1..Len(schemaRun.records) :
                                   n.path \in Inspected(schemaRun.records[i])}}
        /\ \A k \in 1..Len(schemaRun.records) :
              schemaRun.records[k].t \notin {"object", "array"} =>
                 \A n \in schemaRun.nodes : (k - 1) \notin n.recordsWithKey

\* One record holds a only in the 11th element of its root array, another
\* holds b only in the 4th element of an array-valued field, a third holds a
\* field five keys deep: a is counted for the second and third records but
\* not for the first, and neither a.b nor the deep field has a node.
C23_Witness ==
    /\ schemaRun.pc = "computed"
    /\ Len(schemaRun.records) = 3
    /\ schemaRun.records[1].t = "array" /\ <<"a">> \in Fields(schemaRun.records[1])
    /\ <<"a", "b">> \in Fields(schemaRun.records[2])
    /\ \E p \in Fields(schemaRun.records[3]) : Len(p) = 5
    /\ \A n \in schemaRun.nodes : Len(n.path) <= 4 /\ n.path # <<"a", "b">>
    /\ \E n \in schemaRun.nodes : n.path = <<"a">> /\ n.recordsWithKey = {1, 2}

----------------------------------------------------------------------------
(* C24                                                                      *)

\* C24: in edit mode, a change of the code editor's text to a text that is
\* not valid JSON leaves the modification map, hasChanges and the document
\* exactly as they were.
C24_InvalidTextNotPersisted ==
    [][(lastOp'.op = "type" /\ lastOp'.k = 0) =>
          /\ store.editor.isEditing
          /\ store'.editor.modifiedRecords = store.editor.modifiedRecords
          /\ store'.editor.hasChanges = store.editor.hasChanges
          /\ store'.document = store.document]_vars

\* An invalid text has been typed over a stored modification of the current
\* record, which is still there.
C24_Witness ==
    /\ lastOp.op = "type"
    /\ lastOp.k = 0
    /\ lastOp.n > 0
    /\ store.editor.isEditing
    /\ MapHas(Entries, store.currentIndex)
    /\ MapGet(Entries, store.currentIndex) = Edited

----------------------------------------------------------------------------
(* C25                                                                      *)

\* C25: navigation (next, previous, a chosen record) without typing adds no
\* entry to the modification map, removes and alters none, and never turns
\* hasChanges on.  Violated: the record effect's setValue fires the change
\* listener, which stores the record's own value as a modification.
Navigation == {"navigateNext", "navigatePrev", "setCurrentIndex"}

C25_NavigationEditsNothing ==
    [][lastOp'.op \in Navigation =>
          /\ store'.editor.modifiedRecords = store.editor.modifiedRecords
          /\ store'.editor.hasChanges => store.editor.hasChanges]_vars

----------------------------------------------------------------------------
(* C26 .. C30                                                               *)

\* C26: after the toolbar's compare button was pressed, the header's edit
\* toggle is disabled, and its Export and Copy actions hidden, exactly when
\* the compare store's isComparing is true; so they are available again once
\* compare mode was entered and left.  Violated: leaving compare mode keeps
\* leftSource, the value the header derives its isComparing from.
C26_HeaderFollowsCompareMode ==
    lastOp.op = "toggleCompare" =>
        /\ EditToggleDisabled(compare) <=> compare.isComparing
        /\ ExportAndCopyHidden(compare) <=> compare.isComparing

\* What does hold of the header: its controls are unavailable exactly when
\* a left source is set, so they are unavailable throughout compare mode
\* entered from the toolbar.
C26_UnavailableWhileComparing ==
    lastOp.op = "toggleCompare" /\ compare.isComparing =>
        EditToggleDisabled(compare) /\ ExportAndCopyHidden(compare)

\* C27: whenever the header toggle or the "Discard Changes" confirmation
\* takes isEditing from true to false, the modification map is empty in the
\* resulting state; "Keep Editing" leaves isEditing true and the map
\* untouched.  Violated: the toggle asks only hasChanges, which the record
\* effect sets to whether the current record has an entry.
LeavesEditMode == store.editor.isEditing /\ ~store'.editor.isEditing

C27_EditModeLeftOnlyWithoutEdits ==
    [][/\ lastOp'.op \in {"editToggle", "discardChanges"} /\ LeavesEditMode
          => store'.editor.modifiedRecords = <<>>
       /\ lastOp'.op = "cancelDiscard"
          => /\ store'.editor.isEditing
             /\ store'.editor.modifiedRecords = store.editor.modifiedRecords]_vars

\* The part that holds: the "Discard Changes" confirmation leaves edit mode
\* with an empty map, and "Keep Editing" changes nothing in the store.
C27_DiscardAndKeep ==
    [][/\ lastOp'.op = "discardChanges"
          => ~store'.editor.isEditing /\ store'.editor.modifiedRecords = <<>>
       /\ lastOp'.op = "cancelDiscard" => store' = store]_vars

\* C28: after clearExternalFile, externalDocument and externalFileName are
\* null and neither side is a file source, whatever loadExternalFile,
\* setLeftSource, setRightSource and swapSides did before.  Violated:
\* clearExternalFile looks at rightSource only, and swapSides moves the file
\* source to the left.
IsFileSource(source) == source # <<>> /\ source[1].type = "file"

C28_ClearExternalFileRemovesSources ==
    lastOp.op = "clearExternalFile" =>
        /\ compare.externalDocument = <<>>
        /\ compare.externalFileName = <<>>
        /\ ~IsFileSource(compare.leftSource)
        /\ ~IsFileSource(compare.rightSource)

\* What clearExternalFile does establish: the external document and its name
\* are null and the right side is no file source.
C28_RightSideCleared ==
    lastOp.op = "clearExternalFile" =>
        /\ compare.externalDocument = <<>>
        /\ compare.externalFileName = <<>>
        /\ ~IsFileSource(compare.rightSource)

\* C29: every key of the modification map is a record index of the loaded
\* document (0 <= key < totalRecords), and the map is empty while no
\* document is loaded, after any loads, resets, navigation, code-editor
\* edits and table-cell saves.  Violated: a table-cell save uses the row
\* index of the expanded cell, which may stem from a document since replaced.
KeysOf(map) == {map[i].index : i \in 1..Len(map)}

C29_MapKeysAreRecordIndices ==
    IF store.document = <<>>
    THEN Entries = <<>>
    ELSE \A key \in KeysOf(Entries) :
             0 <= key /\ key < store.document[1].totalRecords

\* C30: while a main document is loaded, every record-type compare source,
\* left or right, has an index below the document's totalRecords, whatever
\* compare-store operations, document-store resets and loads of another
\* document came before; so it never resolves to the empty string.
\* Violated: neither reset nor a load of the document store touches the
\* compare store.
RefersToRecord(source) ==
    source # <<>> /\ source[1].type = "record"
        => /\ source[1].index < store.document[1].totalRecords
           /\ getSourceContent(store.document, source) # <<>>

C30_RecordSourcesExist ==
    store.document # <<>> =>
        RefersToRecord(compare.leftSource) /\ RefersToRecord(compare.rightSource)

====
